---- MODULE Spec2Model ----
(***************************************************************************)
(* google-cloud-utils: the BigQuery load orchestrator                      *)
(* (BigQueryLoader.loadJSONToBQ and the methods it calls) as a state       *)
(* machine over the remote warehouse.  Every remote call the loader makes  *)
(* is appended to `calls`, so that the order of the calls of one load call *)
(* is part of the state.                                                   *)
(***************************************************************************)
EXTENDS Integers, Sequences, FiniteSets, TLC

\* ------------------------------------------------------------------ bounds
\* Number of loadJSONToBQ calls the client program makes one after another.
MaxCalls == 2

\* ------------------------------------------------------------- data model
FieldNames == {"x", "y"}
Types == {"INTEGER", "STRING"}
Kinds == {"int", "str"}

\* A table schema: field name -> declared type.
Schemas == UNION {[d -> Types] : d \in SUBSET FieldNames}
NoSchema == [f \in {} |-> "STRING"]

\* A normalised record batch, summarised per field by the kind of its values.
Batches == UNION {[d -> Kinds] : d \in (SUBSET FieldNames) \ {{}}}
NoBatch == [f \in {} |-> "null"]

None == "None"
TableIds == {"orders", "orders_temp"}
BaseTables == {None, "base"}
TableNames == {"orders", "orders_temp", "base"}
WriteDispositions == {"WRITE_TRUNCATE", "WRITE_APPEND"}

\* Schemas the tables of the warehouse may have before the first call.
InitSchemas == {[x |-> "INTEGER"], [x |-> "STRING", y |-> "INTEGER"]}

VARIABLES
    pc,             \* position of the running loadJSONToBQ call
    args,           \* its arguments and the loader's debug flag
    new_data,       \* local new_data
    schema,         \* local schema
    datasetExists,  \* warehouse: the dataset exists
    tables,         \* warehouse: existing table name -> schema
    calls,          \* remote calls made by the running call, in order
    ncalls,         \* loadJSONToBQ calls started so far
    fnPc,           \* pure pipeline stages: the stage reached
    fnIn,           \* pure pipeline stages: the input they are applied to
    fnOut,          \* pure pipeline stages: the results so far
    svc,            \* service handlers: class attributes and remote service state
    proc            \* service handlers: the running calls, their position and locals

vars == <<pc, args, new_data, schema, datasetExists, tables, calls, ncalls,
          fnPc, fnIn, fnOut, svc, proc>>

\* The variables of the load orchestrator and those of the pure stages.
loaderVars == <<pc, args, new_data, schema, datasetExists, tables, calls, ncalls>>
fnVars == <<fnPc, fnIn, fnOut>>
\* The variables of the service handlers.
svcVars == <<svc, proc>>

\* 'orders_temp'[:-5] = 'orders'
EndsWithTemp(t) == t = "orders_temp"
StripTemp(t) == IF t = "orders_temp" THEN "orders" ELSE t

Entry(op, table, sch, ok) ==
    [op |-> op, table |-> table, schema |-> sch, wd |-> "", cd |-> "",
     data |-> NoBatch, ok |-> ok]

\* Lines 349-352 and 368-371: the write disposition of the job configuration;
\* it is left unset for any other value of WRITE_DISPOSITION.
JobWriteDisposition(wd) ==
    IF wd = "WRITE_TRUNCATE" THEN "WRITE_TRUNCATE"
    ELSE IF wd = "WRITE_APPEND" THEN "WRITE_APPEND"
    ELSE ""

\* Lines 348-354 and 367-373: the job configuration and the submission.
LoadEntry(table, sch, wd, data, ok) ==
    [op |-> "load_table_from_json", table |-> table, schema |-> sch,
     wd |-> JobWriteDisposition(wd), cd |-> "CREATE_IF_NEEDED",
     data |-> data, ok |-> ok]

\* ------------------------------------------------------ schema generator
\* Type inferred for a value kind; a field with only null values infers STRING.
InferType(kind) == IF kind = "int" THEN "INTEGER" ELSE "STRING"

\* Merge of two declared types: a conflict widens to STRING.
WidenType(t1, t2) == IF t1 = t2 THEN t1 ELSE "STRING"

\* SchemaGenerator.generateSchema(data, schema): schema inferred from data,
\* merged with the prior schema (NoSchema when none is given).
generateSchema(data, prior) ==
    [f \in (DOMAIN data) \cup (DOMAIN prior) |->
        IF f \in DOMAIN data /\ f \in DOMAIN prior
            THEN WidenType(prior[f], InferType(data[f]))
        ELSE IF f \in DOMAIN data THEN InferType(data[f])
        ELSE prior[f]]

\* ------------------------------------------------------- schema enforcer
\* convert_value on a scalar: STRING stringifies, other types pass through.
convert_value(kind, type) == IF type = "STRING" THEN "str" ELSE kind

\* process_record: exactly the declared fields; absent or null -> null.
enforce_schema_types(data, sch) ==
    [f \in DOMAIN sch |->
        IF f \in DOMAIN data /\ data[f] # "null"
            THEN convert_value(data[f], sch[f])
            ELSE "null"]

\* ---------------------------------------------------------------- Init
Init ==
    /\ pc = "idle"
    /\ args = [debug |-> FALSE, data |-> NoBatch, tableId |-> "orders",
               base_table |-> None, force_schema |-> FALSE,
               WRITE_DISPOSITION |-> "WRITE_TRUNCATE"]
    /\ new_data = NoBatch
    /\ schema = NoSchema
    /\ datasetExists \in BOOLEAN
    /\ tables \in UNION {[d -> InitSchemas] : d \in SUBSET TableNames}
    /\ (~datasetExists => tables = NoSchema)
    /\ calls = <<>>
    /\ ncalls = 0
    /\ fnPc = "off"
    /\ fnIn = <<>>
    /\ fnOut = <<>>
    /\ svc = <<>>
    /\ proc = <<>>

\* loadJSONToBQ is called (lines 318-321), by a client program that is idle or
\* whose previous call has returned or raised.  data is the batch as lines
\* 329-334 leave it (loaded_at added, formatted, duplicate fields removed).
Call ==
    /\ pc \in {"idle", "returned", "raised"}
    /\ ncalls < MaxCalls
    /\ \E d \in BOOLEAN, t \in TableIds, b \in BaseTables, f \in BOOLEAN,
          w \in WriteDispositions, data \in Batches :
        /\ args' = [debug |-> d, data |-> data, tableId |-> t, base_table |-> b,
                    force_schema |-> f, WRITE_DISPOSITION |-> w]
        /\ new_data' = data
    /\ pc' = "checkDataset"
    /\ schema' = NoSchema
    /\ calls' = <<>>
    /\ ncalls' = ncalls + 1
    /\ UNCHANGED <<datasetExists, tables, fnVars, svcVars>>

\* ------------------------------------------------------------ checkDataset
\* checkDataset, lines 301-304: get_dataset succeeds, the dataset is there.
CheckDatasetFound ==
    /\ pc = "checkDataset"
    /\ datasetExists
    /\ calls' = Append(calls, Entry("get_dataset", "", NoSchema, TRUE))
    /\ pc' = "getSchema"
    /\ UNCHANGED <<args, new_data, schema, datasetExists, tables, ncalls, fnVars, svcVars>>

\* Mutant: the result of checkDataset is not tested.
CheckDatasetCreate_IgnoreFailure ==
    /\ pc = "checkDataset"
    /\ ~datasetExists
    /\ \E ok \in BOOLEAN :
        /\ calls' = calls \o <<Entry("get_dataset", "", NoSchema, FALSE),
                               Entry("create_dataset", "", NoSchema, ok)>>
        /\ datasetExists' = ok
        /\ pc' = "getSchema"
    /\ UNCHANGED <<args, new_data, schema, tables, ncalls, fnVars, svcVars>>

\* checkDataset, lines 305-315, and the raise of lines 323-325: get_dataset
\* raises, create_dataset is tried once; the warehouse accepts or refuses it.
CheckDatasetCreate ==
    /\ pc = "checkDataset"
    /\ ~datasetExists
    /\ \E ok \in BOOLEAN :
        /\ calls' = calls \o <<Entry("get_dataset", "", NoSchema, FALSE),
                               Entry("create_dataset", "", NoSchema, ok)>>
        /\ datasetExists' = ok
        /\ pc' = IF ok THEN "getSchema" ELSE "raised"
    /\ UNCHANGED <<args, new_data, schema, tables, ncalls, fnVars, svcVars>>

\* ---------------------------------------------------------------- getSchema
\* client.get_table(ref): the table's schema, or an exception when it is absent.
TableFound(tabs, t) == t \in DOMAIN tabs

\* getSchema, lines 185-229: the schema it returns.
getSchema(data, tabs, BQtable, base_table, force_schema) ==
    IF force_schema THEN generateSchema(data, NoSchema)
    ELSE IF base_table # None THEN
        IF TableFound(tabs, base_table) THEN tabs[base_table]
        ELSE generateSchema(data, NoSchema)
    ELSE IF EndsWithTemp(BQtable) THEN
        IF TableFound(tabs, StripTemp(BQtable)) THEN tabs[StripTemp(BQtable)]
        ELSE IF TableFound(tabs, BQtable) THEN tabs[BQtable]
        ELSE generateSchema(data, NoSchema)
    ELSE IF TableFound(tabs, BQtable) THEN tabs[BQtable]
    ELSE generateSchema(data, NoSchema)

GetTableEntry(tabs, t) ==
    Entry("get_table", t, IF TableFound(tabs, t) THEN tabs[t] ELSE NoSchema,
          TableFound(tabs, t))

\* getSchema, lines 185-229: the get_table calls it makes, in order.
getSchemaCalls(tabs, BQtable, base_table, force_schema) ==
    IF force_schema THEN <<>>
    ELSE IF base_table # None THEN <<GetTableEntry(tabs, base_table)>>
    ELSE IF EndsWithTemp(BQtable) THEN
        IF TableFound(tabs, StripTemp(BQtable))
            THEN <<GetTableEntry(tabs, StripTemp(BQtable))>>
            ELSE <<GetTableEntry(tabs, StripTemp(BQtable)), GetTableEntry(tabs, BQtable)>>
    ELSE <<GetTableEntry(tabs, BQtable)>>

\* Mutant: the debug flag is not tested.
ResolveSchema_IgnoreDebug ==
    /\ pc = "getSchema"
    /\ LET s == getSchema(new_data, tables, args.tableId, args.base_table,
                          args.force_schema)
       IN /\ schema' = s
          /\ new_data' = enforce_schema_types(new_data, s)
    /\ calls' = calls \o getSchemaCalls(tables, args.tableId, args.base_table,
                                        args.force_schema)
    /\ pc' = "load1"
    /\ UNCHANGED <<args, datasetExists, tables, ncalls, fnVars, svcVars>>

\* loadJSONToBQ, lines 334-345: resolve the schema, enforce it on the batch,
\* branch on the debug flag.
ResolveSchema ==
    /\ pc = "getSchema"
    /\ LET s == getSchema(new_data, tables, args.tableId, args.base_table,
                          args.force_schema)
       IN /\ schema' = s
          /\ new_data' = enforce_schema_types(new_data, s)
    /\ calls' = calls \o getSchemaCalls(tables, args.tableId, args.base_table,
                                        args.force_schema)
    /\ pc' = IF args.debug THEN "debug" ELSE "load1"
    /\ UNCHANGED <<args, datasetExists, tables, ncalls, fnVars, svcVars>>

\* loadJSONToBQ, lines 401-404: debug mode computes the schema and returns.
DebugSchema ==
    /\ pc = "debug"
    /\ schema' = generateSchema(new_data, schema)
    /\ pc' = "returned"
    /\ UNCHANGED <<args, new_data, datasetExists, tables, calls, ncalls, fnVars, svcVars>>

\* -------------------------------------------------------------- bulk load
\* Effect of an accepted load job on the warehouse: CREATE_IF_NEEDED creates a
\* missing table with the job's schema, WRITE_TRUNCATE replaces the table.
LoadEffect(tabs, t, sch, wd) ==
    IF ~TableFound(tabs, t) \/ wd = "WRITE_TRUNCATE"
        THEN [u \in (DOMAIN tabs) \cup {t} |-> IF u = t THEN sch ELSE tabs[u]]
        ELSE tabs

\* Mutant: a rejection of the first submission is not caught.
LoadAttempt1_NoCatch ==
    /\ pc = "load1"
    /\ \E ok \in BOOLEAN :
        /\ calls' = Append(calls, LoadEntry(args.tableId, schema,
                                            args.WRITE_DISPOSITION, new_data, ok))
        /\ tables' = IF ok THEN LoadEffect(tables, args.tableId, schema,
                                           args.WRITE_DISPOSITION)
                           ELSE tables
        /\ pc' = IF ok THEN "returned" ELSE "raised"
    /\ UNCHANGED <<args, new_data, schema, datasetExists, ncalls, fnVars, svcVars>>

\* loadJSONToBQ, lines 346-358: first submission; a rejection is caught.
LoadAttempt1 ==
    /\ pc = "load1"
    /\ \E ok \in BOOLEAN :
        /\ calls' = Append(calls, LoadEntry(args.tableId, schema,
                                            args.WRITE_DISPOSITION, new_data, ok))
        /\ tables' = IF ok THEN LoadEffect(tables, args.tableId, schema,
                                           args.WRITE_DISPOSITION)
                           ELSE tables
        /\ pc' = IF ok THEN "returned" ELSE "widen"
    /\ UNCHANGED <<args, new_data, schema, datasetExists, ncalls, fnVars, svcVars>>

\* Mutant: the destination's schema is not updated before a WRITE_APPEND retry.
Widen_NoAppendUpdate ==
    /\ pc = "widen"
    /\ schema' = generateSchema(new_data, schema)
    /\ pc' = "load2"
    /\ UNCHANGED <<args, new_data, datasetExists, tables, calls, ncalls, fnVars, svcVars>>

\* loadJSONToBQ, lines 359-360: widen the schema, branch on the write mode.
Widen ==
    /\ pc = "widen"
    /\ schema' = generateSchema(new_data, schema)
    /\ pc' = IF args.WRITE_DISPOSITION = "WRITE_APPEND" THEN "append_get" ELSE "load2"
    /\ UNCHANGED <<args, new_data, datasetExists, tables, calls, ncalls, fnVars, svcVars>>

\* loadJSONToBQ, lines 362-363: get_table on the destination; an absent table
\* raises out of the except block.
AppendGetTable ==
    /\ pc = "append_get"
    /\ calls' = Append(calls, GetTableEntry(tables, args.tableId))
    /\ pc' = IF TableFound(tables, args.tableId) THEN "append_update" ELSE "raised"
    /\ UNCHANGED <<args, new_data, schema, datasetExists, tables, ncalls, fnVars, svcVars>>

\* loadJSONToBQ, lines 364-366: update_table on the destination; the warehouse
\* accepts or refuses the new schema, a refusal raises out of the except block.
AppendUpdateTable ==
    /\ pc = "append_update"
    /\ \E ok \in BOOLEAN :
        /\ calls' = Append(calls, Entry("update_table", args.tableId, schema, ok))
        /\ tables' = IF ok THEN [tables EXCEPT ![args.tableId] = schema] ELSE tables
        /\ pc' = IF ok THEN "load2" ELSE "raised"
    /\ UNCHANGED <<args, new_data, schema, datasetExists, ncalls, fnVars, svcVars>>

\* The second submission, leading to pc value `rejected` when it is rejected.
SecondSubmission(rejected) ==
    /\ pc = "load2"
    /\ \E ok \in BOOLEAN :
        /\ calls' = Append(calls, LoadEntry(args.tableId, schema,
                                            args.WRITE_DISPOSITION, new_data, ok))
        /\ tables' = IF ok THEN LoadEffect(tables, args.tableId, schema,
                                           args.WRITE_DISPOSITION)
                           ELSE tables
        /\ pc' = IF ok THEN "propagate" ELSE rejected
    /\ UNCHANGED <<args, new_data, schema, datasetExists, ncalls, fnVars, svcVars>>

\* Mutant: a rejected second submission widens and retries again.
LoadAttempt2_RetryLoop == SecondSubmission("widen")

\* Mutant: a rejected second submission is swallowed.
LoadAttempt2_Swallow == SecondSubmission("returned")

\* Mutant: the propagation runs after a rejected second submission too.
LoadAttempt2_PropagateOnFailure == SecondSubmission("propagate")

\* Mutant: the second submission replaces the table whatever the write mode.
LoadAttempt2_Truncate ==
    /\ pc = "load2"
    /\ \E ok \in BOOLEAN :
        /\ calls' = Append(calls, LoadEntry(args.tableId, schema,
                                            "WRITE_TRUNCATE", new_data, ok))
        /\ tables' = IF ok THEN LoadEffect(tables, args.tableId, schema,
                                           "WRITE_TRUNCATE")
                           ELSE tables
        /\ pc' = IF ok THEN "propagate" ELSE "raised"
    /\ UNCHANGED <<args, new_data, schema, datasetExists, ncalls, fnVars, svcVars>>

\* loadJSONToBQ, lines 367-374: second submission; a rejection is not caught.
LoadAttempt2 ==
    /\ pc = "load2"
    /\ \E ok \in BOOLEAN :
        /\ calls' = Append(calls, LoadEntry(args.tableId, schema,
                                            args.WRITE_DISPOSITION, new_data, ok))
        /\ tables' = IF ok THEN LoadEffect(tables, args.tableId, schema,
                                           args.WRITE_DISPOSITION)
                           ELSE tables
        /\ pc' = IF ok THEN "propagate" ELSE "raised"
    /\ UNCHANGED <<args, new_data, schema, datasetExists, ncalls, fnVars, svcVars>>

\* ------------------------------------------------------ schema propagation
\* Mutant: a failure of the propagation to the base table is raised.
PropagateBase_Raise ==
    /\ pc = "propagate"
    /\ args.base_table # None
    /\ IF TableFound(tables, args.base_table)
         THEN \E ok \in BOOLEAN :
                /\ calls' = calls \o <<GetTableEntry(tables, args.base_table),
                                       Entry("update_table", args.base_table, schema, ok)>>
                /\ tables' = IF ok THEN [tables EXCEPT ![args.base_table] = schema]
                                   ELSE tables
                /\ pc' = IF ok THEN "returned" ELSE "raised"
         ELSE /\ calls' = Append(calls, GetTableEntry(tables, args.base_table))
              /\ tables' = tables
              /\ pc' = "raised"
    /\ UNCHANGED <<args, new_data, schema, datasetExists, ncalls, fnVars, svcVars>>

\* loadJSONToBQ, lines 375-386 and 398-400: a base table is named.  An absent
\* base table raises into the outer except, a refused update into the inner
\* one; both are swallowed.
PropagateBase ==
    /\ pc = "propagate"
    /\ args.base_table # None
    /\ IF TableFound(tables, args.base_table)
         THEN \E ok \in BOOLEAN :
                /\ calls' = calls \o <<GetTableEntry(tables, args.base_table),
                                       Entry("update_table", args.base_table, schema, ok)>>
                /\ tables' = IF ok THEN [tables EXCEPT ![args.base_table] = schema]
                                   ELSE tables
         ELSE /\ calls' = Append(calls, GetTableEntry(tables, args.base_table))
              /\ tables' = tables
    /\ pc' = "returned"
    /\ UNCHANGED <<args, new_data, schema, datasetExists, ncalls, fnVars, svcVars>>

\* loadJSONToBQ, lines 387 and 398-400: no base table is named.  The elif reads
\* BQtable, which is not a name of loadJSONToBQ (its parameter is tableId): the
\* NameError is caught by the outer except and nothing is propagated.
PropagateNoBase ==
    /\ pc = "propagate"
    /\ args.base_table = None
    /\ pc' = "returned"
    /\ UNCHANGED <<args, new_data, schema, datasetExists, tables, calls, ncalls, fnVars, svcVars>>

Next ==
    \/ Call
    \/ CheckDatasetFound
    \/ CheckDatasetCreate
    \/ ResolveSchema
    \/ DebugSchema
    \/ LoadAttempt1
    \/ Widen
    \/ AppendGetTable
    \/ AppendUpdateTable
    \/ LoadAttempt2
    \/ PropagateBase
    \/ PropagateNoBase

Spec == Init /\ [][Next]_vars

\* ===================================================================
\* Properties of the load orchestrator
\* ===================================================================
IsLoad(e) == e.op = "load_table_from_json"

\* Positions of the bulk-load submissions of the running call, and the
\* submissions themselves, in order.
LoadIdx == {i \in DOMAIN calls : IsLoad(calls[i])}
Loads == SelectSeq(calls, IsLoad)
Idx1 == CHOOSE i \in LoadIdx : \A j \in LoadIdx : i <= j
Idx2 == CHOOSE i \in LoadIdx : \A j \in LoadIdx : j <= i

Ended == pc \in {"returned", "raised"}
FirstRejected == Len(Loads) >= 1 /\ ~Loads[1].ok
BothRejected == Len(Loads) >= 2 /\ ~Loads[1].ok /\ ~Loads[2].ok
RetryAccepted == Len(Loads) >= 2 /\ ~Loads[1].ok /\ Loads[2].ok

\* C1: a non-debug loadJSONToBQ call submits the bulk load at most twice, a
\* second submission only follows a failed first one, and there is never a
\* third submission whatever the outcomes of the first two.
C1_AtMostTwoLoads ==
    /\ Len(Loads) <= 2
    /\ (Len(Loads) = 2 => ~Loads[1].ok)

\* Both submissions were rejected and the call has ended.
C1_Witness == ~args.debug /\ BothRejected /\ Ended

\* C2 as stated: whenever the first load attempt is rejected, the call makes
\* exactly one second load attempt before it ends, for WRITE_TRUNCATE and
\* WRITE_APPEND alike.
C2_RetryAlways == (Ended /\ FirstRejected) => Len(Loads) = 2

\* The last remote call is a failed get_table or update_table on the destination.
DestinationUpdateFailed ==
    /\ calls # <<>>
    /\ calls[Len(calls)].op \in {"get_table", "update_table"}
    /\ calls[Len(calls)].table = args.tableId
    /\ ~calls[Len(calls)].ok

\* C2 amended: after a rejected first attempt the call makes exactly one second
\* attempt with the widened schema, unless the write mode is WRITE_APPEND and
\* get_table or update_table on the destination table fails: then the call
\* raises without a retry.  With WRITE_TRUNCATE the retry is always submitted.
C2_RetryUnlessAppendUpdateFails ==
    (Ended /\ FirstRejected) =>
        \/ /\ Len(Loads) = 2
           /\ Loads[2].schema = generateSchema(Loads[1].data, Loads[1].schema)
        \/ /\ Len(Loads) = 1
           /\ args.WRITE_DISPOSITION = "WRITE_APPEND"
           /\ pc = "raised"
           /\ DestinationUpdateFailed

\* A WRITE_APPEND call whose first attempt was rejected has retried with a
\* schema that differs from the first one.
C2_Witness ==
    /\ Ended /\ FirstRejected /\ Len(Loads) = 2
    /\ args.WRITE_DISPOSITION = "WRITE_APPEND"
    /\ Loads[2].schema # Loads[1].schema

\* C3: if both load attempts are rejected the call raises and does not return
\* normally; if the first attempt succeeds the call returns normally with no
\* second submission and no update_table call.
C3_Outcome ==
    /\ (BothRejected => pc = "raised")
    /\ ((Len(Loads) >= 1 /\ Loads[1].ok) =>
            /\ pc = "returned"
            /\ Len(Loads) = 1
            /\ \A i \in DOMAIN calls : calls[i].op # "update_table")

\* Both attempts of a WRITE_TRUNCATE call were rejected and the call raised.
C3_Witness == BothRejected /\ pc = "raised" /\ args.WRITE_DISPOSITION = "WRITE_TRUNCATE"

\* C4: with WRITE_APPEND, get_table and then update_table with the widened
\* schema are made on the destination strictly between the rejected first
\* submission and the second, and the destination has the widened schema when
\* the second is submitted; with WRITE_TRUNCATE no update_table on the
\* destination precedes the second submission.
C4_UpdateBeforeRetry ==
    /\ (Len(Loads) = 2 /\ args.WRITE_DISPOSITION = "WRITE_APPEND") =>
            \E i \in DOMAIN calls :
                /\ Idx1 < i /\ i + 1 < Idx2
                /\ calls[i].op = "get_table" /\ calls[i].table = args.tableId
                /\ calls[i].ok
                /\ calls[i + 1].op = "update_table"
                /\ calls[i + 1].table = args.tableId
                /\ calls[i + 1].schema = Loads[2].schema
                /\ calls[i + 1].ok
    /\ (pc = "load2" /\ args.WRITE_DISPOSITION = "WRITE_APPEND") =>
            /\ TableFound(tables, args.tableId)
            /\ tables[args.tableId] = schema
    /\ (Len(Loads) = 2 /\ args.WRITE_DISPOSITION = "WRITE_TRUNCATE") =>
            \A i \in DOMAIN calls :
                (i < Idx2 => ~(calls[i].op = "update_table"
                               /\ calls[i].table = args.tableId))

\* A WRITE_APPEND retry was submitted after the destination's schema changed.
C4_Witness ==
    /\ Len(Loads) = 2 /\ args.WRITE_DISPOSITION = "WRITE_APPEND"
    /\ \E i \in DOMAIN calls :
        /\ calls[i].op = "get_table" /\ calls[i].table = args.tableId
        /\ Idx1 < i /\ calls[i].schema # Loads[2].schema

\* The table the widened schema is propagated to, if any.
HasDependent == args.base_table # None \/ EndsWithTemp(args.tableId)
Dependent == IF args.base_table # None THEN args.base_table ELSE StripTemp(args.tableId)

\* C5 as stated: when both load attempts are rejected, the call still attempts
\* to propagate the widened schema to the base table (or the permanent
\* counterpart of a '_temp' table) before it ends in failure.
C5_PropagateAfterSecondRejection ==
    (Ended /\ BothRejected /\ HasDependent) =>
        \E i \in DOMAIN calls :
            /\ i > Idx2
            /\ calls[i].op = "get_table"
            /\ calls[i].table = Dependent

\* C5 amended: when both load attempts are rejected the second rejection is the
\* call's last remote call: the call raises with no propagation attempted, and
\* a remote call after the second submission implies that it was accepted.
C5_NoPropagationAfterSecondRejection ==
    /\ BothRejected => (pc = "raised" /\ Idx2 = Len(calls))
    /\ (Len(Loads) = 2 /\ Idx2 < Len(calls)) => Loads[2].ok

\* Both attempts were rejected while the named base table exists.
C5_Witness ==
    /\ BothRejected /\ Ended
    /\ args.base_table # None /\ TableFound(tables, args.base_table)

\* The remote calls made after the second submission.
AfterRetry == SubSeq(calls, Idx2 + 1, Len(calls))

\* get_table on table t, followed by update_table with the call's schema when
\* the table was found, is among the calls made after the second submission.
PropagatedTo(t) ==
    \E i \in DOMAIN calls :
        /\ i > Idx2
        /\ calls[i].op = "get_table" /\ calls[i].table = t
        /\ calls[i].ok =>
            /\ i + 1 \in DOMAIN calls
            /\ calls[i + 1].op = "update_table"
            /\ calls[i + 1].table = t
            /\ calls[i + 1].schema = schema

\* C6: after a successful widened retry the widened schema is propagated to
\* the dependent table: to base_table when one is named, otherwise, when
\* tableId ends in '_temp', to the permanent counterpart, via get_table and
\* update_table with the widened schema.
C6_PropagatedToDependent ==
    (pc = "returned" /\ RetryAccepted /\ HasDependent) => PropagatedTo(Dependent)

\* C7: after a successful widened retry a failure of the propagation step
\* (get_table or update_table on the dependent table, a missing table
\* included) is swallowed: the call returns normally.
C7_PropagationFailureSwallowed ==
    RetryAccepted => pc \in {"propagate", "returned"}

\* The retry was accepted, the propagation's last remote call failed and the
\* call has ended.
C7_Witness ==
    /\ RetryAccepted /\ Ended
    /\ AfterRetry # <<>>
    /\ ~calls[Len(calls)].ok

\* C8: in debug mode loadJSONToBQ submits no bulk load and calls update_table
\* on no table, whatever the input and the state of the warehouse; a debug
\* call that returns has computed a schema covering the batch.
C8_DebugNoLoadNoUpdate ==
    args.debug =>
        /\ \A i \in DOMAIN calls : calls[i].op \notin {"load_table_from_json", "update_table"}
        /\ pc \notin {"load1", "widen", "append_get", "append_update", "load2", "propagate"}
        /\ (pc = "returned" =>
                /\ schema # NoSchema
                /\ DOMAIN new_data = DOMAIN schema
                /\ schema = generateSchema(new_data, schema))

\* A debug call on an existing dataset has returned after looking up a table.
C8_Witness ==
    /\ args.debug /\ pc = "returned"
    /\ \E i \in DOMAIN calls : calls[i].op = "get_table" /\ calls[i].ok

\* C9: loadJSONToBQ first looks the dataset up and creates it when the lookup
\* fails; when the creation fails too the call raises with the creation tried
\* once and no table lookup or load submission made.
C9_DatasetFirst ==
    /\ calls # <<>> =>
        /\ calls[1].op = "get_dataset"
        /\ (~calls[1].ok => (Len(calls) >= 2 /\ calls[2].op = "create_dataset"))
        /\ \A i \in DOMAIN calls :
            /\ (calls[i].op = "get_dataset" => i = 1)
            /\ (calls[i].op = "create_dataset" => (i = 2 /\ ~calls[1].ok))
    /\ (\E i \in DOMAIN calls : calls[i].op = "create_dataset" /\ ~calls[i].ok) =>
        /\ pc = "raised"
        /\ Len(calls) = 2
        /\ schema = NoSchema
        /\ new_data = args.data
    /\ (pc \in {"getSchema", "debug", "load1"}) =>
        /\ datasetExists
        /\ calls # <<>>

\* The dataset was missing, its creation was refused and the call raised.
C9_Witness ==
    /\ pc = "raised"
    /\ Len(calls) = 2
    /\ calls[2].op = "create_dataset" /\ ~calls[2].ok

\* The schema inferred from the call's batch alone.
Inferred == generateSchema(args.data, NoSchema)

\* C10: getSchema resolves the schema by priority: force_schema gives the
\* inferred schema with no table lookup; otherwise an existing named base
\* table gives its schema; otherwise, for a tableId ending in '_temp', an
\* existing permanent counterpart gives its schema and, only if that is
\* missing, the existing temp table gives its schema; otherwise an existing
\* target table gives its schema; the schema is inferred only as last resort.
C10_SchemaPriority ==
    pc \in {"load1", "debug"} =>
        IF args.force_schema
            THEN /\ schema = Inferred
                 /\ \A i \in DOMAIN calls : calls[i].op # "get_table"
        ELSE IF args.base_table # None /\ TableFound(tables, args.base_table)
            THEN schema = tables[args.base_table]
        ELSE IF EndsWithTemp(args.tableId) /\ TableFound(tables, StripTemp(args.tableId))
            THEN schema = tables[StripTemp(args.tableId)]
        ELSE IF TableFound(tables, args.tableId)
            THEN schema = tables[args.tableId]
        ELSE schema = Inferred

\* C23: both load submissions of a call use the write mode the caller
\* configured, create disposition CREATE_IF_NEEDED and the same enforced
\* batch; only the schema may differ between the two.
C23_SameSubmission ==
    \A i \in LoadIdx :
        /\ calls[i].wd = args.WRITE_DISPOSITION
        /\ calls[i].cd = "CREATE_IF_NEEDED"
        /\ calls[i].data = new_data
        /\ calls[i].data = enforce_schema_types(args.data, calls[Idx1].schema)
        /\ calls[i].table = args.tableId

\* A WRITE_APPEND call has made both submissions, with different schemas.
C23_Witness ==
    /\ Len(Loads) = 2
    /\ args.WRITE_DISPOSITION = "WRITE_APPEND"
    /\ calls[Idx1].schema # calls[Idx2].schema
    /\ calls[Idx1].data = calls[Idx2].data

\* ===================================================================
\* Record normalizer: formatJSON and removeDuplicatesFields
\* ===================================================================
\* A JSON value is a record [t, v]: t its Python type, v its content.  A str
\* is the sequence of its characters, a dict the sequence of its <<key, value>>
\* items in insertion order (keys distinct), a list the sequence of its elements.
Null == [t |-> "null", v |-> <<>>]
IntV(n) == [t |-> "int", v |-> n]
StrV(s) == [t |-> "str", v |-> s]
DictV(items) == [t |-> "dict", v |-> items]
ListV(elts) == [t |-> "list", v |-> elts]
\* pd.Timestamp / datetime, np.ndarray (one-dimensional) and np.generic values.
TsV == [t |-> "timestamp", v |-> <<>>]
NdArrayV(elts) == [t |-> "ndarray", v |-> elts]
NpScalarV(n) == [t |-> "npscalar", v |-> n]

IsDict(x) == x.t = "dict"
IsList(x) == x.t = "list"
EmptyDict == DictV(<<>>)

\* Characters that are written by name.
CR == "CR"
BOM == "BOM"
QUOTE == "QUOTE"

\* dict[key] = value: an existing key keeps its position, a new key is appended.
DictSet(items, key, value) ==
    IF \E i \in DOMAIN items : items[i][1] = key
        THEN [i \in DOMAIN items |-> IF items[i][1] = key THEN <<key, value>> ELSE items[i]]
        ELSE Append(items, <<key, value>>)

DictKeys(items) == {items[i][1] : i \in DOMAIN items}
DictGet(items, key) == items[CHOOSE i \in DOMAIN items : items[i][1] = key][2]

\* str.lower() and str.replace(old, new) on the characters of the model.
LowerChar(c) == IF c = "A" THEN "a" ELSE IF c = "O" THEN "o" ELSE IF c = "I" THEN "i" ELSE c
Lower(s) == [i \in DOMAIN s |-> LowerChar(s[i])]
Replace(s, old, new) == [i \in DOMAIN s |-> IF s[i] = old THEN new ELSE s[i]]
Remove(s, old) == SelectSeq(s, LAMBDA c : c # old)

\* Mutant: the dollar sign is not removed from field names.
CleanName_KeepDollar(field) ==
    Remove(Remove(Remove(Remove(Replace(field, "-", "_"), CR), " "), BOM), QUOTE)

\* Line 74: field.replace('-','_').replace('\r','').replace(' ','')
\*               .replace('$','').replace('\ufeff','').replace('\"','')
CleanName(field) ==
    Remove(Remove(Remove(Remove(Remove(Replace(field, "-", "_"), CR), " "), "$"), BOM), QUOTE)

RECURSIVE recRemoveDuplicatesFields(_), RemoveFieldsFrom(_, _, _, _)

\* Lines 68-76: the loop over the fields of a dict, from item i on.
RemoveFieldsFrom(items, i, new_json, visited) ==
    IF i > Len(items) THEN new_json
    ELSE LET field == items[i][1] IN
         IF Lower(field) \in visited
            THEN RemoveFieldsFrom(items, i + 1, new_json, visited)
            ELSE RemoveFieldsFrom(items, i + 1,
                    DictSet(new_json, CleanName(field),
                            recRemoveDuplicatesFields(items[i][2])),
                    visited \cup {Lower(field)})

\* Lines 66-82.
recRemoveDuplicatesFields(json) ==
    IF IsDict(json) THEN DictV(RemoveFieldsFrom(json.v, 1, <<>>, {}))
    ELSE IF IsList(json)
        THEN ListV([i \in DOMAIN json.v |-> recRemoveDuplicatesFields(json.v[i])])
    ELSE IF json.t = "str" THEN StrV(Remove(json.v, CR))
    ELSE json

\* Line 83, on a batch (a list of records).
removeDuplicatesFields(data) == [i \in DOMAIN data |-> recRemoveDuplicatesFields(data[i])]

Version == <<"v", "e", "r", "s", "i", "o", "n">>
Digits == {"7"}
DigitValue(c) == CASE c = "7" -> 7

\* The call raised an exception.
Raised == [t |-> "raise", v |-> <<>>]

\* The text "exit()": evaluated as Python it calls the builtin exit, which
\* raises SystemExit.
ExitCall == <<"e", "x", "i", "t", "(", ")">>

\* Lines 109-113, try: int(eval(value)) except Exception: pass, as
\* [ok, value].  eval takes a str only (anything else raises TypeError, an
\* Exception), and evaluates the str as a Python expression: a numeric literal
\* evaluates to its number, a text that is no expression raises an Exception
\* and the value is kept, and the text "exit()" raises SystemExit, which is
\* no Exception and leaves formatJSON.
IntEval(value) ==
    IF value.t = "str" /\ Len(value.v) = 1 /\ value.v[1] \in Digits
        THEN [ok |-> TRUE, value |-> IntV(DigitValue(value.v[1]))]
    ELSE IF value = StrV(ExitCall)
        THEN [ok |-> FALSE, value |-> Raised]
        ELSE [ok |-> FALSE, value |-> value]

\* value.isoformat(), line 117.
IsoFormat == StrV(<<"T">>)

AllDicts(elts) == \A i \in DOMAIN elts : IsDict(elts[i])

\* An exception raised while one of the elements was computed leaves the
\* whole computation.
Raises(elts) == \E i \in DOMAIN elts : elts[i] = Raised

\* Lines 130-132 and 145-147: the list of the formatted records of a list.
FormatList(elts) == IF Raises(elts) THEN Raised ELSE ListV(elts)

RECURSIVE recFunc(_, _), FormatField(_, _, _)

\* Mutant: the elements of a list of records are not canonicalized.
FormatField_NoListRecursion(field, value, platform) ==
    IF value = Null THEN value
    ELSE IF platform \notin {"masonhub", "shopify"} /\ field = Version
        THEN IntEval(value).value
    ELSE IF value.t = "timestamp" THEN IsoFormat
    ELSE IF IsDict(value)
        THEN IF value = EmptyDict THEN Null ELSE recFunc(value, platform)
    ELSE IF value.t = "ndarray"
        THEN IF Len(value.v) = 0 THEN Null ELSE ListV(value.v)
    ELSE IF IsList(value)
        THEN IF value.v = <<EmptyDict>> \/ Len(value.v) = 0 THEN Null ELSE value
    ELSE IF value.t = "npscalar" THEN IntV(value.v)
    ELSE value

\* Lines 101-158: the new value of one field.
FormatField(field, value, platform) ==
    IF value = Null THEN value
    ELSE IF platform \notin {"masonhub", "shopify"} /\ field = Version
        THEN IntEval(value).value
    ELSE IF value.t = "timestamp" THEN IsoFormat
    ELSE IF IsDict(value)
        THEN IF value = EmptyDict THEN Null ELSE recFunc(value, platform)
    ELSE IF value.t = "ndarray"
        THEN IF Len(value.v) = 0 THEN Null
             ELSE IF AllDicts(value.v)
                THEN FormatList([i \in DOMAIN value.v |-> recFunc(value.v[i], platform)])
             ELSE ListV(value.v)
    ELSE IF IsList(value)
        THEN IF value.v = <<EmptyDict>> \/ Len(value.v) = 0 THEN Null
             ELSE IF AllDicts(value.v)
                THEN FormatList([i \in DOMAIN value.v |-> recFunc(value.v[i], platform)])
             ELSE value
    ELSE IF value.t = "npscalar" THEN IntV(value.v)
    ELSE value

\* Lines 96-160.
recFunc(dictio, platform) ==
    IF ~IsDict(dictio) THEN dictio
    ELSE LET values == [i \in DOMAIN dictio.v |->
                          FormatField(dictio.v[i][1], dictio.v[i][2], platform)]
         IN  IF Raises(values) THEN Raised
             ELSE DictV([i \in DOMAIN dictio.v |-> <<dictio.v[i][1], values[i]>>])

\* Lines 95 and 162-165: the formatted records; the call raises when one of
\* them is Raised.
formatJSON(data, platform) == [i \in DOMAIN data |-> recFunc(data[i], platform)]

\* Line 334: removeDuplicatesFields(formatJSON(data, platform)); the call
\* raises when formatJSON does.
normalize(data, platform) ==
    LET formatted == formatJSON(data, platform) IN
        IF Raises(formatted) THEN formatted ELSE removeDuplicatesFields(formatted)

\* -------------------------------------------------- inputs of the normalizer
\* Largest number of fields of a generated flat record.
MaxFields == 3
\* Largest nesting depth of a generated field value.
MaxDepth == 2

Platforms == {"shopify", "masonhub", "other"}

\* Field names: "A", "a", "A ", "O-I", "O_I", "$a", '\ufeff"b\r', "version"
\* and "version ".
FieldKeys ==
    {<<"A">>, <<"a">>, <<"A", " ">>, <<"O", "-", "I">>, <<"O", "_", "I">>,
     <<"$", "a">>, <<BOM, QUOTE, "b", CR>>, Version, Version \o <<" ">>}
NestedKeys == {<<"a">>, <<"O", "-", "I">>, Version}

\* Records of up to MaxFields fields with distinct names, the i-th field
\* holding the integer i.
FlatRecords ==
    {DictV([i \in DOMAIN ks |-> <<ks[i], IntV(i)>>]) :
        ks \in {q \in UNION {[1..n -> FieldKeys] : n \in 0..MaxFields} :
                    \A i, j \in DOMAIN q : q[i] = q[j] => i = j}}

BaseValues ==
    {Null, IntV(1), StrV(<<"7">>), StrV(<<"a", CR>>), TsV, NpScalarV(1),
     EmptyDict, ListV(<<>>), NdArrayV(<<>>), NdArrayV(<<IntV(1)>>),
     NdArrayV(<<EmptyDict>>)}

\* Field values nested to depth d: dicts of one field, dicts of the two fields
\* "A " and "a", lists of one element, lists of two elements.
RECURSIVE ValuesOfDepth(_)
ValuesOfDepth(d) ==
    IF d = 0 THEN BaseValues
    ELSE LET P == ValuesOfDepth(d - 1) IN
         BaseValues
         \cup {DictV(<< <<k, x>> >>) : k \in NestedKeys, x \in P}
         \cup {DictV(<< <<<<"A", " ">>, x>>, <<<<"a">>, IntV(1)>> >>) : x \in P}
         \cup {ListV(<<x>>) : x \in P}
         \cup {ListV(<<x, y>>) : x \in P, y \in {IntV(1), EmptyDict}}

\* Records of one field holding a nested value.
NestedRecords == {DictV(<< <<k, x>> >>) : k \in FieldKeys, x \in ValuesOfDepth(MaxDepth)}

\* {"version": "exit()"} and {"a": [{"version": "exit()"}, {}]}
ExitRecords ==
    {DictV(<< <<Version, StrV(ExitCall)>> >>),
     DictV(<< <<<<"a">>, ListV(<< DictV(<< <<Version, StrV(ExitCall)>> >>),
                                   EmptyDict >>)>> >>)}

\* {"Order-Id": 5, "Amount": "12.50", "meta": {}}
OrderRecord ==
    DictV(<< <<<<"O", "r", "d", "e", "r", "-", "I", "d">>, IntV(5)>>,
             <<<<"A", "m", "o", "u", "n", "t">>, StrV(<<"1", "2", ".", "5", "0">>)>>,
             <<<<"m", "e", "t", "a">>, EmptyDict>> >>)

\* Batches: one record, or the record {"A ": 1, "a": 2} followed by a flat one.
NormBatches ==
    {<<r>> : r \in FlatRecords \cup NestedRecords \cup {OrderRecord} \cup ExitRecords}
    \cup {<<DictV(<< <<<<"A", " ">>, IntV(1)>>, <<<<"a">>, IntV(2)>> >>), r>> :
            r \in {q \in FlatRecords : Len(q.v) <= 1}}

\* The load orchestrator at rest.
LoaderIdle ==
    /\ pc = "idle"
    /\ args = [debug |-> FALSE, data |-> NoBatch, tableId |-> "orders",
               base_table |-> None, force_schema |-> FALSE,
               WRITE_DISPOSITION |-> "WRITE_TRUNCATE"]
    /\ new_data = NoBatch
    /\ schema = NoSchema
    /\ datasetExists = FALSE
    /\ tables = NoSchema
    /\ calls = <<>>
    /\ ncalls = 0

\* No service handler is in use.
HandlersIdle ==
    /\ svc = <<>>
    /\ proc = <<>>

\* -------------------------------------------------- the normalizer's stages
InitNorm ==
    /\ LoaderIdle
    /\ HandlersIdle
    /\ fnPc = "raw"
    /\ fnIn \in [data : NormBatches, platform : Platforms]
    /\ fnOut = <<>>

\* Line 334, inner call: formatJSON(data, platform).
FormatJSON ==
    /\ fnPc = "raw"
    /\ LET formatted == formatJSON(fnIn.data, fnIn.platform) IN
        IF Raises(formatted)
            THEN fnOut' = [formatted |-> <<>>] /\ fnPc' = "raised"
            ELSE fnOut' = [formatted |-> formatted] /\ fnPc' = "formatted"
    /\ UNCHANGED <<fnIn, loaderVars, svcVars>>

\* Line 334, outer call: removeDuplicatesFields on the formatted batch.
RemoveDuplicatesFields ==
    /\ fnPc = "formatted"
    /\ fnOut' = [formatted |-> fnOut.formatted,
                 normalized |-> removeDuplicatesFields(fnOut.formatted)]
    /\ fnPc' = "normalized"
    /\ UNCHANGED <<fnIn, loaderVars, svcVars>>

\* Line 334 again, on a batch that is already normalized.
NormalizeAgain ==
    /\ fnPc = "normalized"
    /\ LET again == normalize(fnOut.normalized, fnIn.platform) IN
        IF Raises(again)
            THEN fnOut' = [formatted |-> <<>>] /\ fnPc' = "raised"
            ELSE /\ fnOut' = [formatted |-> fnOut.formatted,
                              normalized |-> fnOut.normalized,
                              again |-> again]
                 /\ fnPc' = "renormalized"
    /\ UNCHANGED <<fnIn, loaderVars, svcVars>>

NextNorm ==
    \/ FormatJSON
    \/ RemoveDuplicatesFields
    \/ NormalizeAgain

SpecNorm == InitNorm /\ [][NextNorm]_vars

\* ===================================================================
\* Properties of getSchema (continued)
\* ===================================================================
\* getSchema has returned a schema it generated from the data: its last table
\* lookup failed (lines 198-200, 216-217, 224-226).
InferredFromData ==
    /\ pc \in {"load1", "debug"}
    /\ ~args.force_schema
    /\ calls[Len(calls)].op = "get_table"
    /\ ~calls[Len(calls)].ok

\* C11: with force_schema false, getSchema infers the schema from the data
\* only if no match is found anywhere: neither the named base table, nor the
\* permanent counterpart of a '_temp' table, nor the target table exists.
C11_InferOnlyIfNoMatch ==
    InferredFromData =>
        /\ ~(args.base_table # None /\ TableFound(tables, args.base_table))
        /\ ~(EndsWithTemp(args.tableId) /\ TableFound(tables, StripTemp(args.tableId)))
        /\ ~TableFound(tables, args.tableId)

\* ===================================================================
\* Properties of the record normalizer
\* ===================================================================
\* C12: normalization (formatJSON, then removeDuplicatesFields) is idempotent:
\* normalizing the normalized batch yields the same batch.
C12_NormalizeIdempotent ==
    fnPc = "renormalized" => fnOut.again = fnOut.normalized

\* The fields of input record `rec` whose cleaned names coincide with that of
\* its i-th field, compared case-insensitively.
SameName(rec, i) ==
    {j \in DOMAIN rec.v : Lower(CleanName(rec.v[j][1])) = Lower(CleanName(rec.v[i][1]))}
FirstOf(S) == CHOOSE i \in S : \A j \in S : i <= j

\* Record `out` keeps, for every field of `rec`, exactly one key of that name
\* (case-insensitively): the cleaned name of the first such field of `rec`,
\* with that field's value.
FirstOccurrenceWins(rec, out) ==
    /\ \A i, j \in DOMAIN out.v :
            Lower(out.v[i][1]) = Lower(out.v[j][1]) => i = j
    /\ \A i \in DOMAIN rec.v :
        LET first == FirstOf(SameName(rec, i)) IN
            /\ CleanName(rec.v[first][1]) \in DictKeys(out.v)
            /\ DictGet(out.v, CleanName(rec.v[first][1]))
                    = recRemoveDuplicatesFields(rec.v[first][2])

\* C13: in removeDuplicatesFields, of the fields of one record whose names
\* coincide case-insensitively (as "A", "a" and "A ") exactly one key survives,
\* the cleaned name of the first-encountered field with that field's value, so
\* that output field names are case-insensitively unique within the record.
C13_FirstOccurrenceWins ==
    fnPc = "normalized" =>
        \A r \in DOMAIN fnOut.formatted :
            FirstOccurrenceWins(fnOut.formatted[r], fnOut.normalized[r])

ForbiddenChars == {"-", CR, " ", "$", BOM, QUOTE}

\* No field name of x, at any depth through records and lists, has a
\* forbidden character.
RECURSIVE NamesClean(_)
NamesClean(x) ==
    IF IsDict(x)
        THEN \A i \in DOMAIN x.v :
                /\ \A c \in DOMAIN x.v[i][1] : x.v[i][1][c] \notin ForbiddenChars
                /\ NamesClean(x.v[i][2])
    ELSE IF IsList(x) THEN \A i \in DOMAIN x.v : NamesClean(x.v[i])
    ELSE TRUE

\* {"Order_Id": 5, "Amount": "12.50", "meta": None}
OrderRecordNormalized ==
    DictV(<< <<<<"O", "r", "d", "e", "r", "_", "I", "d">>, IntV(5)>>,
             <<<<"A", "m", "o", "u", "n", "t">>, StrV(<<"1", "2", ".", "5", "0">>)>>,
             <<<<"m", "e", "t", "a">>, Null>> >>)

\* The name of the field with hyphens replaced and the other forbidden
\* characters left out.
Underscored(name) ==
    SelectSeq([i \in DOMAIN name |-> IF name[i] = "-" THEN "_" ELSE name[i]],
              LAMBDA c : c \notin ForbiddenChars)

\* C14: after removeDuplicatesFields no field name at any nesting depth has a
\* hyphen, carriage return, space, dollar sign, byte-order mark or double
\* quote: hyphens become underscores, the others are removed, every output
\* name is the name of an input field so cleaned; {"Order-Id": 5, "Amount":
\* "12.50", "meta": {}} normalizes to {"Order_Id": 5, "Amount": "12.50",
\* "meta": None}.
C14_NamesClean ==
    fnPc \in {"normalized", "renormalized"} =>
        /\ \A r \in DOMAIN fnOut.normalized :
            /\ NamesClean(fnOut.normalized[r])
            /\ IsDict(fnOut.normalized[r]) =>
                    DictKeys(fnOut.normalized[r].v)
                        \subseteq {Underscored(k) : k \in DictKeys(fnOut.formatted[r].v)}
        /\ (fnIn.data = <<OrderRecord>> => fnOut.normalized = <<OrderRecordNormalized>>)

\* A record with a '$' name holding a list of records with a hyphenated name
\* has been normalized.
C14_Witness ==
    /\ fnPc = "normalized"
    /\ fnIn.data = << DictV(<< << <<"$", "a">>,
                                  ListV(<< DictV(<< << <<"O", "-", "I">>, IntV(1) >> >>) >>) >> >>) >>

EmptyValues == {EmptyDict, ListV(<<>>), ListV(<<EmptyDict>>)}

\* No field of record x, at any depth through nested records and lists of
\* records, holds an empty record, an empty list or [{}].
RECURSIVE NoEmptyValues(_)
NoEmptyValues(x) ==
    IsDict(x) =>
        \A i \in DOMAIN x.v :
            LET value == x.v[i][2] IN
                /\ value \notin EmptyValues
                /\ IsDict(value) => NoEmptyValues(value)
                /\ (IsList(value) /\ AllDicts(value.v)) =>
                        \A j \in DOMAIN value.v : NoEmptyValues(value.v[j])

VersionRule(field, value, platform) ==
    platform \notin {"masonhub", "shopify"} /\ field = Version /\ value # Null

\* Record `out` is record `rec` canonicalized: same field names; outside the
\* 'version' rule null stays null, an empty record, an empty list and [{}]
\* become null, no value is an empty record or an empty list, a value [{}]
\* comes from a numpy array only, and non-empty records and lists of records
\* are canonicalized in turn.
RECURSIVE Canonicalized(_, _, _)
Canonicalized(rec, out, platform) ==
    /\ IsDict(out)
    /\ Len(out.v) = Len(rec.v)
    /\ \A i \in DOMAIN rec.v :
        LET a == rec.v[i][2]
            b == out.v[i][2]
        IN  /\ out.v[i][1] = rec.v[i][1]
            /\ ~VersionRule(rec.v[i][1], a, platform) =>
                /\ (a = Null \/ a \in EmptyValues) => b = Null
                /\ b \notin {EmptyDict, ListV(<<>>)}
                /\ b = ListV(<<EmptyDict>>) => a.t = "ndarray"
                /\ (IsDict(a) /\ a # EmptyDict) => Canonicalized(a, b, platform)
                /\ (IsList(a) /\ a \notin EmptyValues /\ AllDicts(a.v)) =>
                        /\ IsList(b)
                        /\ Len(b.v) = Len(a.v)
                        /\ \A j \in DOMAIN a.v :
                            a.v[j] = EmptyDict \/ Canonicalized(a.v[j], b.v[j], platform)

ParsesTo(value) ==
    IF value.t = "str" /\ value.v # <<>> /\ \A i \in DOMAIN value.v : value.v[i] \in Digits
        THEN [ok |-> TRUE, value |-> IntV(DigitValue(value.v[1]))]
        ELSE [ok |-> FALSE, value |-> value]

\* Record `out` is record `rec` with its 'version' fields handled: on a
\* platform that is not exempt a non-null 'version' field holds the integer
\* its value parses to, or its value unchanged; on an exempt platform it holds
\* what a field of another name would hold; nested records and lists of
\* records are handled in turn.
RECURSIVE VersionHandled(_, _, _)
VersionHandled(rec, out, platform) ==
    /\ IsDict(out)
    /\ Len(out.v) = Len(rec.v)
    /\ \A i \in DOMAIN rec.v :
        LET field == rec.v[i][1]
            a == rec.v[i][2]
            b == out.v[i][2]
        IN  IF VersionRule(field, a, platform)
                THEN b = ParsesTo(a).value
                ELSE /\ field = Version => b = FormatField(<<"a">>, a, platform)
                     /\ (IsDict(a) /\ a # EmptyDict) => VersionHandled(a, b, platform)
                     /\ (IsList(a) /\ a \notin EmptyValues /\ AllDicts(a.v)) =>
                            /\ IsList(b)
                            /\ Len(b.v) = Len(a.v)
                            /\ \A j \in DOMAIN a.v :
                                VersionHandled(a.v[j], b.v[j], platform)

\* The 'version' fields of every formatted record are handled.
C26_Handled ==
    fnPc = "formatted" =>
        \A r \in DOMAIN fnOut.formatted :
            VersionHandled(fnIn.data[r], fnOut.formatted[r], fnIn.platform)

\* C26: in formatJSON, on a platform other than 'masonhub' and 'shopify',
\* every non-null field named 'version', at any depth reached through records
\* and lists of records, is replaced by the integer its value parses to and is
\* left unchanged when parsing fails, and the record never fails; on the two
\* exempt platforms a 'version' field is canonicalized like any other field.
C26_VersionParsed ==
    /\ fnPc # "raised"
    /\ C26_Handled

\* ===================================================================
\* Schema enforcer on records: enforce_schema_types
\* ===================================================================
FloatV(n) == [t |-> "float", v |-> n]
BoolV(b) == [t |-> "bool", v |-> b]

\* bigquery.SchemaField(name, field_type, mode, fields)
SchemaField(name, field_type, mode, fields) ==
    [name |-> name, field_type |-> field_type, mode |-> mode, fields |-> fields]

DigitChars == <<"0", "1", "2", "3", "4", "5", "6", "7", "8", "9">>

\* str(n) of a natural number.
RECURSIVE DigitsOf(_)
DigitsOf(n) ==
    IF n < 10 THEN <<DigitChars[n + 1]>>
    ELSE DigitsOf(n \div 10) \o <<DigitChars[(n % 10) + 1]>>

\* int(s) of a string: its value when it is a run of digits, else an error.
RECURSIVE ParseDigits(_, _)
ParseDigits(s, acc) ==
    IF s = <<>> THEN acc
    ELSE ParseDigits(Tail(s),
            10 * acc + ((CHOOSE i \in DOMAIN DigitChars : DigitChars[i] = Head(s)) - 1))
ParseInt(s) ==
    IF s # <<>> /\ \A i \in DOMAIN s : \E d \in DOMAIN DigitChars : DigitChars[d] = s[i]
        THEN [ok |-> TRUE, value |-> ParseDigits(s, 0)]
        ELSE [ok |-> FALSE, value |-> 0]

\* repr(value), or json.dumps(value) when js holds, as a sequence of characters.
RECURSIVE Repr(_, _), ReprSeq(_, _, _)
Repr(value, js) ==
    CASE value.t = "null" -> IF js THEN <<"n", "u", "l", "l">> ELSE <<"N", "o", "n", "e">>
      [] value.t = "int" -> DigitsOf(value.v)
      [] value.t = "float" -> DigitsOf(value.v) \o <<".", "0">>
      [] value.t = "bool" ->
            IF value.v THEN (IF js THEN <<"t", "r", "u", "e">> ELSE <<"T", "r", "u", "e">>)
            ELSE (IF js THEN <<"f", "a", "l", "s", "e">> ELSE <<"F", "a", "l", "s", "e">>)
      [] value.t = "str" -> <<IF js THEN QUOTE ELSE "'">> \o value.v \o <<IF js THEN QUOTE ELSE "'">>
      [] value.t = "list" -> <<"[">> \o ReprSeq(value.v, js, FALSE) \o <<"]">>
      [] value.t = "dict" -> <<"{">> \o ReprSeq(value.v, js, TRUE) \o <<"}">>
ReprSeq(elts, js, items) ==
    IF elts = <<>> THEN <<>>
    ELSE (IF items
            THEN Repr(StrV(elts[1][1]), js) \o <<":", " ">> \o Repr(elts[1][2], js)
            ELSE Repr(elts[1], js))
         \o (IF Len(elts) > 1 THEN <<",", " ">> ELSE <<>>)
         \o ReprSeq(Tail(elts), js, items)

\* str(value) and json.dumps(value).
Str(value) == IF value.t = "str" THEN value ELSE StrV(Repr(value, FALSE))
JsonDumps(value) == StrV(Repr(value, TRUE))

\* bool(value)
Truthy(value) ==
    CASE value.t = "null" -> FALSE
      [] value.t \in {"int", "float"} -> value.v # 0
      [] value.t = "bool" -> value.v
      [] OTHER -> Len(value.v) > 0

\* Lines 238-252: a failed cast returns None.
cast_value(value, field_type) ==
    CASE field_type = "STRING" -> Str(value)
      [] field_type = "FLOAT" ->
            CASE value.t \in {"int", "float"} -> FloatV(value.v)
              [] value.t = "bool" -> FloatV(IF value.v THEN 1 ELSE 0)
              [] value.t = "str" ->
                    IF ParseInt(value.v).ok THEN FloatV(ParseInt(value.v).value) ELSE Null
              [] OTHER -> Null
      [] field_type = "INTEGER" ->
            CASE value.t \in {"int", "float"} -> IntV(value.v)
              [] value.t = "bool" -> IntV(IF value.v THEN 1 ELSE 0)
              [] value.t = "str" ->
                    IF ParseInt(value.v).ok THEN IntV(ParseInt(value.v).value) ELSE Null
              [] OTHER -> Null
      [] field_type = "BOOLEAN" -> BoolV(Truthy(value))
      [] OTHER -> value

\* [str(item) for item in value] on a value that is not a list (line 262):
\* a str yields its characters, a dict its keys, anything else is not iterable.
StrItems(value) ==
    CASE value.t = "str" -> ListV([i \in DOMAIN value.v |-> StrV(<<value.v[i]>>)])
      [] value.t = "dict" -> ListV([i \in DOMAIN value.v |-> StrV(value.v[i][1])])
      [] OTHER -> Raised

\* Lines 254-266: convert_value on the full value (field names of a schema
\* are distinct).
ConvertValue(value, field) ==
    IF field.field_type = "RECORD" /\ ~IsDict(value)
        THEN DictV([i \in DOMAIN field.fields |->
                <<field.fields[i].name, cast_value(value, field.fields[i].field_type)>>])
    ELSE IF field.field_type = "STRING"
        THEN IF field.mode = "REPEATED"
                THEN IF IsList(value) THEN value ELSE StrItems(value)
                ELSE IF IsDict(value) THEN JsonDumps(value) ELSE Str(value)
    ELSE value

\* name in s, for strings.
IsSubstring(name, s) ==
    \E i \in 0..(Len(s) - Len(name)) : SubSeq(s, i + 1, i + Len(name)) = name

\* field_name in record (line 274), for a dict, a list or a str.
Contains(record, field_name) ==
    CASE IsDict(record) -> field_name \in DictKeys(record.v)
      [] IsList(record) -> \E i \in DOMAIN record.v : record.v[i] = StrV(field_name)
      [] record.t = "str" -> IsSubstring(field_name, record.v)

RECURSIVE process_record(_, _), ProcessField(_, _), ProcessFrom(_, _, _, _)

\* Mutant: a null value is converted like any other value.
ProcessField_ConvertNull(record, field) ==
    IF record.t \notin {"dict", "list", "str"} THEN Raised
    ELSE IF ~Contains(record, field.name) THEN Null
    ELSE IF ~IsDict(record) THEN Raised
    ELSE LET value == DictGet(record.v, field.name) IN
        IF field.field_type = "RECORD" /\ IsDict(value)
            THEN process_record(value, field.fields)
        ELSE IF field.field_type = "RECORD" /\ IsList(value)
            THEN LET items == [i \in DOMAIN value.v |->
                                    process_record(value.v[i], field.fields)]
                 IN  IF \E i \in DOMAIN items : items[i] = Raised
                        THEN Raised ELSE ListV(items)
        ELSE ConvertValue(value, field)

\* Lines 270-293: the value stored for one schema field, or Raised: the test
\* `field_name in record` raises on a record that is no container, and
\* record[field_name] raises on a list or a str.
ProcessField(record, field) ==
    IF record.t \notin {"dict", "list", "str"} THEN Raised
    ELSE IF ~Contains(record, field.name) THEN Null
    ELSE IF ~IsDict(record) THEN Raised
    ELSE LET value == DictGet(record.v, field.name) IN
        IF value = Null THEN Null
        ELSE IF field.field_type = "RECORD" /\ IsDict(value)
            THEN process_record(value, field.fields)
        ELSE IF field.field_type = "RECORD" /\ IsList(value)
            THEN LET items == [i \in DOMAIN value.v |->
                                    process_record(value.v[i], field.fields)]
                 IN  IF \E i \in DOMAIN items : items[i] = Raised
                        THEN Raised ELSE ListV(items)
        ELSE ConvertValue(value, field)

\* Lines 269-294: the loop over schema_fields, from field i on.
ProcessFrom(record, schema_fields, i, processed_record) ==
    IF i > Len(schema_fields) THEN DictV(processed_record)
    ELSE LET value == ProcessField(record, schema_fields[i]) IN
         IF value = Raised THEN Raised
         ELSE ProcessFrom(record, schema_fields, i + 1,
                          DictSet(processed_record, schema_fields[i].name, value))

\* Lines 268-294.
process_record(record, schema_fields) == ProcessFrom(record, schema_fields, 1, <<>>)

\* Line 297: the list of processed records, unless a record raised.
EnforceRecords(data, sch) ==
    LET out == [i \in DOMAIN data |-> process_record(data[i], sch)]
        raised == \E i \in DOMAIN out : out[i] = Raised
    IN  [raised |-> raised, records |-> IF raised THEN <<>> ELSE out]

\* ------------------------------------------- schema generator on records
\* Type of a field no value of which has been seen yet.
NullType == "NULL"

RECURSIVE InferField(_, _), InferRecord(_), MergeField(_, _), MergeSchemas(_, _)
RECURSIVE MergeAll(_, _), Finalize(_)

\* The field inferred from one value: a record infers RECORD with inferred
\* children, a list infers REPEATED with the element type of its contents.
InferField(name, value) ==
    CASE value.t = "null" -> SchemaField(name, NullType, "NULLABLE", <<>>)
      [] value.t = "int" -> SchemaField(name, "INTEGER", "NULLABLE", <<>>)
      [] value.t = "float" -> SchemaField(name, "FLOAT", "NULLABLE", <<>>)
      [] value.t = "bool" -> SchemaField(name, "BOOLEAN", "NULLABLE", <<>>)
      [] value.t = "str" -> SchemaField(name, "STRING", "NULLABLE", <<>>)
      [] value.t = "dict" -> SchemaField(name, "RECORD", "NULLABLE", InferRecord(value))
      [] value.t = "list" ->
            MergeAll([i \in DOMAIN value.v |-> InferField(name, value.v[i])],
                     SchemaField(name, NullType, "REPEATED", <<>>))
InferRecord(rec) == [i \in DOMAIN rec.v |-> InferField(rec.v[i][1], rec.v[i][2])]

\* Two fields of one name: children are united, a type conflict widens to
\* STRING, REPEATED is sticky.
MergeField(f, g) ==
    LET mode == IF "REPEATED" \in {f.mode, g.mode} THEN "REPEATED" ELSE "NULLABLE" IN
    IF f.field_type = NullType THEN SchemaField(g.name, g.field_type, mode, g.fields)
    ELSE IF g.field_type = NullType THEN SchemaField(f.name, f.field_type, mode, f.fields)
    ELSE IF f.field_type = "RECORD" /\ g.field_type = "RECORD"
        THEN SchemaField(f.name, "RECORD", mode, MergeSchemas(f.fields, g.fields))
    ELSE IF f.field_type = g.field_type THEN SchemaField(f.name, f.field_type, mode, f.fields)
    ELSE SchemaField(f.name, "STRING", mode, <<>>)
MergeAll(fs, acc) == IF fs = <<>> THEN acc ELSE MergeAll(Tail(fs), MergeField(acc, Head(fs)))

\* merge(S1, S2): every field of either schema, in first-seen order.
MergeSchemas(S1, S2) ==
    [i \in DOMAIN S1 |->
        IF \E j \in DOMAIN S2 : S2[j].name = S1[i].name
            THEN MergeField(S1[i], S2[CHOOSE j \in DOMAIN S2 : S2[j].name = S1[i].name])
            ELSE S1[i]]
    \o SelectSeq(S2, LAMBDA g : \A i \in DOMAIN S1 : S1[i].name # g.name)

\* A field with only null values infers STRING.
Finalize(S) ==
    [i \in DOMAIN S |->
        SchemaField(S[i].name,
                    IF S[i].field_type = NullType THEN "STRING" ELSE S[i].field_type,
                    S[i].mode, Finalize(S[i].fields))]

RECURSIVE InferFrom(_, _, _)
InferFrom(records, i, acc) ==
    IF i > Len(records) THEN acc
    ELSE InferFrom(records, i + 1, MergeSchemas(acc, InferRecord(records[i])))

\* infer(records)
inferSchema(records) == Finalize(InferFrom(records, 1, <<>>))

\* generateSchema(data, schema) on records: the schema inferred from the
\* data merged into the prior schema.
widenSchema(data, prior) == MergeSchemas(prior, inferSchema(data))

\* ------------------------------------------------------ enforcer inputs
MaxSchemaDepth == 2
ScalarTypes == {"STRING", "INTEGER", "FLOAT", "BOOLEAN"}
Modes == {"NULLABLE", "REPEATED"}
Leaf(name, type) == SchemaField(name, type, "NULLABLE", <<>>)

\* Child schemas of a RECORD field with up to d levels of fields.
RECURSIVE ChildSchemas(_)
ChildSchemas(d) ==
    LET Leaves == {<<Leaf(<<"a">>, T)>> : T \in ScalarTypes}
                    \cup {<<Leaf(<<"a">>, "STRING"), Leaf(<<"x">>, "INTEGER")>>}
    IN  IF d <= 1 THEN Leaves
        ELSE Leaves
             \cup {<<SchemaField(<<"a">>, "RECORD", "NULLABLE", c)>> : c \in ChildSchemas(d - 1)}
             \cup {<<SchemaField(<<"a">>, "RECORD", "NULLABLE", c), Leaf(<<"x">>, "FLOAT")>> :
                        c \in ChildSchemas(d - 1)}

TopFields ==
    {SchemaField(<<"a">>, T, m, <<>>) : T \in ScalarTypes, m \in Modes}
    \cup {SchemaField(<<"a">>, "RECORD", m, c) : m \in Modes, c \in ChildSchemas(MaxSchemaDepth)}

\* Schemas of one field "a", alone or followed by an INTEGER field "x".
EnforceSchemas ==
    {<<f>> : f \in TopFields} \cup {<<f, Leaf(<<"x">>, "INTEGER")>> : f \in TopFields}

\* Values of normalized records: null, 5, "ab", "7", records and lists.
EnforceScalars == {Null, IntV(5), StrV(<<"a", "b">>), StrV(<<"7">>)}
RECURSIVE EnforceValues(_)
EnforceValues(d) ==
    IF d = 0 THEN EnforceScalars
    ELSE LET P == EnforceValues(d - 1) IN
         EnforceScalars \cup {EmptyDict, ListV(<<>>)}
         \cup {DictV(<< <<<<"a">>, x>> >>) : x \in P}
         \cup {DictV(<< <<<<"a">>, x>>, <<<<"z">>, IntV(1)>> >>) : x \in P}
         \cup {ListV(<<x>>) : x \in P}
         \cup {ListV(<<x, IntV(5)>>) : x \in P}

\* Records with field "a", with or without a field "x", or neither.
EnforceRecordsOf(V) ==
    {DictV(<< <<<<"a">>, x>> >>) : x \in V}
    \cup {DictV(<< <<<<"a">>, x>>, <<<<"x">>, IntV(1)>> >>) : x \in V}
    \cup {EmptyDict, DictV(<< <<<<"x">>, StrV(<<"7">>)>> >>)}

\* Schema [tags STRING REPEATED] with the record {"tags": [1, 2]}.
TagsInput ==
    [data |-> << DictV(<< << <<"t", "a", "g", "s">>, ListV(<<IntV(1), IntV(2)>>) >> >>) >>,
     schema |-> << SchemaField(<<"t", "a", "g", "s">>, "STRING", "REPEATED", <<>>) >>]

\* Schema [x INTEGER] with the batch [{"x": 1}, {"x": "a"}].
MixedInput ==
    [data |-> << DictV(<< << <<"x">>, IntV(1) >> >>), DictV(<< << <<"x">>, StrV(<<"a">>) >> >>) >>,
     schema |-> << Leaf(<<"x">>, "INTEGER") >>]

EnforceInputs ==
    {[data |-> <<r>>, schema |-> sch] :
        r \in EnforceRecordsOf(EnforceValues(MaxDepth)), sch \in EnforceSchemas}
    \cup {[data |-> <<DictV(<< <<<<"a">>, IntV(5)>> >>), r>>, schema |-> sch] :
        r \in EnforceRecordsOf(EnforceScalars), sch \in EnforceSchemas}
    \cup {TagsInput, MixedInput}

\* --------------------------------------------------------- specification
InitEnforce ==
    /\ LoaderIdle
    /\ HandlersIdle
    /\ fnPc = "unenforced"
    /\ fnIn \in EnforceInputs
    /\ fnOut = <<>>

\* Line 345: new_data = self.enforce_schema_types(new_data, schema)
EnforceSchemaTypes ==
    /\ fnPc = "unenforced"
    /\ LET out == EnforceRecords(fnIn.data, fnIn.schema) IN
        /\ fnPc' = IF out.raised THEN "raised" ELSE "enforced"
        /\ fnOut' = [enforced |-> out.records]
    /\ UNCHANGED <<fnIn, loaderVars, svcVars>>

\* Mutant: the schema is generated from the data alone.
WidenSchema_NoPrior ==
    /\ fnPc = "enforced"
    /\ fnPc' = "widened"
    /\ fnOut' = [enforced |-> fnOut.enforced,
                 widened |-> widenSchema(fnOut.enforced, <<>>)]
    /\ UNCHANGED <<fnIn, loaderVars, svcVars>>

\* Line 359: schema = generateSchema(new_data, schema)
WidenSchema ==
    /\ fnPc = "enforced"
    /\ fnPc' = "widened"
    /\ fnOut' = [enforced |-> fnOut.enforced,
                 widened |-> widenSchema(fnOut.enforced, fnIn.schema)]
    /\ UNCHANGED <<fnIn, loaderVars, svcVars>>

NextEnforce == EnforceSchemaTypes \/ WidenSchema

SpecEnforce == InitEnforce /\ [][NextEnforce]_vars

\* ===================================================================
\* Properties of the schema enforcer
\* ===================================================================
Enforced == fnPc \in {"enforced", "widened"}
FieldNamesOf(fields) == {fields[i].name : i \in DOMAIN fields}
FieldNamed(fields, name) == fields[CHOOSE i \in DOMAIN fields : fields[i].name = name]

\* `out` is a record with exactly the declared field names, and so is every
\* non-null value of a declared RECORD field (each element, for a list).
RECURSIVE HasExactFields(_, _)
HasExactFields(out, fields) ==
    /\ IsDict(out)
    /\ Len(out.v) = Len(fields)
    /\ DictKeys(out.v) = FieldNamesOf(fields)
    /\ \A i \in DOMAIN fields :
        fields[i].field_type = "RECORD" =>
            LET value == DictGet(out.v, fields[i].name) IN
                \/ value = Null
                \/ /\ IsList(value)
                   /\ \A j \in DOMAIN value.v : HasExactFields(value.v[j], fields[i].fields)
                \/ /\ ~IsList(value)
                   /\ HasExactFields(value, fields[i].fields)

\* C16: every record returned by enforce_schema_types has exactly the field
\* names declared in the schema, recursively for every non-null value of a
\* declared RECORD field (nested record, element of a repeated record, or
\* record synthesized from a non-record value); undeclared fields are dropped.
C16_ExactFields ==
    Enforced =>
        \A r \in DOMAIN fnOut.enforced : HasExactFields(fnOut.enforced[r], fnIn.schema)

\* Every declared field that is absent from `rec` or null in it is null in
\* `out`, recursively through the records of declared RECORD fields.
RECURSIVE NullsPreserved(_, _, _)
NullsPreserved(rec, out, fields) ==
    \A i \in DOMAIN fields :
        LET name == fields[i].name IN
            /\ name \in DictKeys(out.v)
            /\ IF name \notin DictKeys(rec.v) \/ DictGet(rec.v, name) = Null
                THEN DictGet(out.v, name) = Null
                ELSE fields[i].field_type = "RECORD" =>
                    LET value == DictGet(rec.v, name)
                        result == DictGet(out.v, name)
                    IN  /\ IsDict(value) => NullsPreserved(value, result, fields[i].fields)
                        /\ IsList(value) =>
                            \A j \in DOMAIN value.v :
                                IsDict(value.v[j]) =>
                                    NullsPreserved(value.v[j], result.v[j], fields[i].fields)

\* C17: in the records enforce_schema_types returns, a declared field absent
\* from the input record is null and a declared field present with value null
\* stays null, whatever its declared type and mode.
C17_NullPreserved ==
    Enforced =>
        \A r \in DOMAIN fnOut.enforced :
            NullsPreserved(fnIn.data[r], fnOut.enforced[r], fnIn.schema)

\* The record {"a": None} was enforced against [a FLOAT REPEATED, x INTEGER]:
\* the null field stays null and the absent one is null.
C17_Witness ==
    /\ fnPc = "enforced"
    /\ fnIn.schema = << SchemaField(<<"a">>, "FLOAT", "REPEATED", <<>>), Leaf(<<"x">>, "INTEGER") >>
    /\ fnIn.data = << DictV(<< << <<"a">>, Null >> >>) >>
    /\ fnOut.enforced = << DictV(<< << <<"a">>, Null >>, << <<"x">>, Null >> >>) >>

\* C18: for a field declared STRING with mode REPEATED whose input value is a
\* list, every element of the output list is a string, the input element
\* coerced to a string: {"tags": [1, 2]} yields {"tags": ["1", "2"]}.
C18_RepeatedStringsCoerced ==
    Enforced =>
        \A r \in DOMAIN fnOut.enforced : \A i \in DOMAIN fnIn.schema :
            LET field == fnIn.schema[i]
                rec == fnIn.data[r]
            IN  (/\ field.field_type = "STRING"
                 /\ field.mode = "REPEATED"
                 /\ field.name \in DictKeys(rec.v)
                 /\ IsList(DictGet(rec.v, field.name))) =>
                    LET value == DictGet(rec.v, field.name)
                        result == DictGet(fnOut.enforced[r].v, field.name)
                    IN  /\ IsList(result)
                        /\ Len(result.v) = Len(value.v)
                        /\ \A j \in DOMAIN value.v : result.v[j] = Str(value.v[j])

\* C19: enforce_schema_types never raises: whatever the schema and the batch,
\* it returns a record for every record of the batch.
C19_NeverRaises ==
    /\ fnPc # "raised"
    /\ Enforced => Len(fnOut.enforced) = Len(fnIn.data)

MaxThreads == 2
\* Constructor calls per thread.
MaxNew == 2
Threads == 1..MaxThreads

SingletonClasses ==
    {"GoogleCloudHandler", "BigQueryHandler", "CloudStorageHandler", "CloudTasksHandler",
     "DatastoreHandler", "FirestoreHandler", "PubSubHandler", "SecretManagerHandler"}

\* A fresh instance: no client attribute, _initialize not yet run.
NewObject == [client |-> FALSE, initialized |-> FALSE, runs |-> 0, failed |-> FALSE]

\* svc: the class, its _instance (0 for None, else the index of the object),
\* its _lock (0 when free, else the holder) and the objects created.
\* proc[t]: thread t's position in __new__, the calls it has made, the object
\* its last call returned with that object's state at the return.
InitSingleton ==
    /\ LoaderIdle
    /\ fnPc = "off" /\ fnIn = <<>> /\ fnOut = <<>>
    /\ svc \in [cls : SingletonClasses, instance : {0}, lock : {0}, objects : {<<>>}]
    /\ proc = [t \in Threads |-> [pc |-> "idle", calls |-> 0, ret |-> 0, got |-> NewObject]]

AtPc(t, where) == proc[t].pc = where
Goto(t, where) == [proc EXCEPT ![t].pc = where]

\* `if cls._instance is None:` outside the lock.
Check1(t) ==
    /\ proc[t].pc \in {"idle", "returned", "raised"}
    /\ proc[t].calls < MaxNew
    /\ proc' = [proc EXCEPT ![t].pc = IF svc.instance = 0 THEN "lock" ELSE "return",
                            ![t].calls = @ + 1]
    /\ UNCHANGED <<svc, loaderVars, fnVars>>

\* `with cls._lock:`
Acquire(t) ==
    /\ AtPc(t, "lock")
    /\ svc.lock = 0
    /\ svc' = [svc EXCEPT !.lock = t]
    /\ proc' = Goto(t, "check2")
    /\ UNCHANGED <<loaderVars, fnVars>>

\* Mutant: the instance is created without the second test.
Check2_NoRecheck(t) ==
    /\ AtPc(t, "check2")
    /\ proc' = Goto(t, "create")
    /\ UNCHANGED <<svc, loaderVars, fnVars>>

\* `if cls._instance is None:` under the lock; the lock is released on leaving
\* the with block.
Check2(t) ==
    /\ AtPc(t, "check2")
    /\ IF svc.instance = 0
        THEN /\ proc' = Goto(t, "create")
             /\ UNCHANGED svc
        ELSE /\ proc' = Goto(t, "return")
             /\ svc' = [svc EXCEPT !.lock = 0]
    /\ UNCHANGED <<loaderVars, fnVars>>

\* `cls._instance = super().__new__(cls)`
Create(t) ==
    /\ AtPc(t, "create")
    /\ svc' = [svc EXCEPT !.objects = Append(@, NewObject),
                          !.instance = Len(svc.objects) + 1]
    /\ proc' = Goto(t, "init")
    /\ UNCHANGED <<loaderVars, fnVars>>

\* What an exception leaves of the object: BigQueryHandler deletes the client
\* attribute, the other classes keep what was set.
AfterFailure(obj) ==
    [obj EXCEPT !.failed = TRUE,
                !.client = IF svc.cls = "BigQueryHandler" THEN FALSE ELSE @]

\* `cls._instance._initialize(...)`, up to the creation of the client, which
\* succeeds or raises; the exception leaves __new__ and releases the lock.
InitializeClient(t) ==
    /\ AtPc(t, "init")
    /\ LET i == svc.instance
           obj == [svc.objects[i] EXCEPT !.runs = @ + 1]
       IN  \/ /\ svc' = [svc EXCEPT !.objects[i] = [obj EXCEPT !.client = TRUE]]
              /\ proc' = Goto(t, "init2")
           \/ /\ svc' = [svc EXCEPT !.objects[i] = AfterFailure(obj), !.lock = 0]
              /\ proc' = Goto(t, "raised")
    /\ UNCHANGED <<loaderVars, fnVars>>

\* The rest of _initialize (the attributes set after the client), which
\* completes or raises.
InitializeRest(t) ==
    /\ AtPc(t, "init2")
    /\ LET i == svc.instance IN
           \/ /\ svc' = [svc EXCEPT !.objects[i].initialized = TRUE, !.lock = 0]
              /\ proc' = Goto(t, "return")
           \/ /\ svc' = [svc EXCEPT !.objects[i] = AfterFailure(svc.objects[i]), !.lock = 0]
              /\ proc' = Goto(t, "raised")
    /\ UNCHANGED <<loaderVars, fnVars>>

\* `return cls._instance`
Return(t) ==
    /\ AtPc(t, "return")
    /\ proc' = [proc EXCEPT ![t].pc = "returned",
                            ![t].ret = svc.instance,
                            ![t].got = svc.objects[svc.instance]]
    /\ UNCHANGED <<svc, loaderVars, fnVars>>

NextSingleton ==
    \E t \in Threads :
        \/ Check1(t)
        \/ Acquire(t)
        \/ Check2(t)
        \/ Create(t)
        \/ InitializeClient(t)
        \/ InitializeRest(t)
        \/ Return(t)

SpecSingleton == InitSingleton /\ [][NextSingleton]_vars

\* C21: for each singleton handler class, under any interleaving of concurrent
\* constructor calls, at most one instance is ever created, its _initialize
\* body runs at most once, and every call that returns returns that instance.
C21_OneInstance ==
    /\ Len(svc.objects) <= 1
    /\ \A i \in DOMAIN svc.objects : svc.objects[i].runs <= 1
    /\ \A t \in Threads : AtPc(t, "returned") => proc[t].ret = 1

\* Two threads have both gone through the lock and both hold the one instance.
C21_Witness ==
    /\ Len(svc.objects) = 1
    /\ svc.objects[1].runs = 1
    /\ AtPc(1, "returned") /\ AtPc(2, "returned")
    /\ proc[1].calls = 1 /\ proc[2].calls = 1
    /\ proc[1].ret = 1 /\ proc[2].ret = 1

\* C24: after a BigQueryHandler constructor call whose _initialize raised, no
\* later call returns an instance that has no client and _initialized unset.
C24_NoPoisonedSingleton ==
    \A t \in Threads :
        (/\ svc.cls = "BigQueryHandler"
         /\ AtPc(t, "returned")
         /\ proc[t].got.failed) =>
            (proc[t].got.client \/ proc[t].got.initialized)

\* C25: no thread receives the shared instance before its initialization has
\* completed: the instance a call returns has its client attribute set.
C25_ReturnedInitialized ==
    \A t \in Threads :
        (AtPc(t, "returned") /\ ~proc[t].got.failed) => proc[t].got.client

\* ===================================================================
\* Concurrent loadJSONToBQ calls on one destination table
\* ===================================================================
\* Every thread makes one WRITE_APPEND call on table "orders", which exists,
\* without a base table.  proc[t] holds the call's arguments and locals:
\* data, force_schema, new_data, schema and the schema client_table had when
\* get_table returned it.  svc.pushed lists the threads whose update_table
\* was accepted, in order.
RaceBatches == {b \in Batches : Cardinality(DOMAIN b) = 1}
RaceSchemas == {NoSchema, [x |-> "INTEGER"]}

InitRace ==
    /\ pc = "idle"
    /\ args = [debug |-> FALSE, data |-> NoBatch, tableId |-> "orders",
               base_table |-> None, force_schema |-> FALSE,
               WRITE_DISPOSITION |-> "WRITE_APPEND"]
    /\ new_data = NoBatch
    /\ schema = NoSchema
    /\ datasetExists = TRUE
    /\ tables \in {[t \in {"orders"} |-> sch] : sch \in RaceSchemas}
    /\ calls = <<>>
    /\ ncalls = 0
    /\ fnPc = "off" /\ fnIn = <<>> /\ fnOut = <<>>
    /\ svc = [pushed |-> <<>>]
    /\ proc \in [Threads -> [pc : {"getSchema"}, data : RaceBatches, force_schema : BOOLEAN,
                             new_data : {NoBatch}, schema : {NoSchema},
                             client_table : {NoSchema}]]

RaceUnchanged == <<pc, args, new_data, schema, datasetExists, calls, ncalls, fnVars>>

\* Lines 334-345: resolve the schema and enforce it on the batch.
RaceResolveSchema(t) ==
    /\ AtPc(t, "getSchema")
    /\ LET s == getSchema(proc[t].data, tables, "orders", None, proc[t].force_schema) IN
        proc' = [proc EXCEPT ![t].schema = s,
                             ![t].new_data = enforce_schema_types(proc[t].data, s),
                             ![t].pc = "load1"]
    /\ UNCHANGED <<svc, tables, RaceUnchanged>>

\* Lines 346-358: first submission; a rejection is caught.
RaceLoadAttempt1(t) ==
    /\ AtPc(t, "load1")
    /\ \E ok \in BOOLEAN :
        /\ tables' = IF ok THEN LoadEffect(tables, "orders", proc[t].schema, "WRITE_APPEND")
                           ELSE tables
        /\ proc' = Goto(t, IF ok THEN "returned" ELSE "widen")
    /\ UNCHANGED <<svc, RaceUnchanged>>

\* Line 359: widen the schema.
RaceWiden(t) ==
    /\ AtPc(t, "widen")
    /\ proc' = [proc EXCEPT ![t].schema = generateSchema(proc[t].new_data, proc[t].schema),
                            ![t].pc = "append_get"]
    /\ UNCHANGED <<svc, tables, RaceUnchanged>>

\* Lines 362-363: client_table = get_table(table_ref).
RaceGetTable(t) ==
    /\ AtPc(t, "append_get")
    /\ proc' = [proc EXCEPT ![t].client_table = tables["orders"],
                            ![t].pc = "append_update"]
    /\ UNCHANGED <<svc, tables, RaceUnchanged>>

\* Mutant: the pushed schema keeps the fields the table has at the update.
RaceUpdateTable_Merge(t) ==
    /\ AtPc(t, "append_update")
    /\ \E ok \in BOOLEAN :
        /\ tables' = IF ok
                        THEN [tables EXCEPT !["orders"] =
                                [f \in (DOMAIN proc[t].schema) \cup (DOMAIN tables["orders"]) |->
                                    IF f \in DOMAIN proc[t].schema
                                        THEN proc[t].schema[f] ELSE tables["orders"][f]]]
                        ELSE tables
        /\ svc' = IF ok THEN [svc EXCEPT !.pushed = Append(@, t)] ELSE svc
        /\ proc' = Goto(t, IF ok THEN "load2" ELSE "raised")
    /\ UNCHANGED RaceUnchanged

\* Lines 364-365: client_table.schema = schema; update_table(client_table,
\* ['schema']), which the warehouse accepts or refuses.
RaceUpdateTable(t) ==
    /\ AtPc(t, "append_update")
    /\ \E ok \in BOOLEAN :
        /\ tables' = IF ok THEN [tables EXCEPT !["orders"] = proc[t].schema] ELSE tables
        /\ svc' = IF ok THEN [svc EXCEPT !.pushed = Append(@, t)] ELSE svc
        /\ proc' = Goto(t, IF ok THEN "load2" ELSE "raised")
    /\ UNCHANGED RaceUnchanged

\* Lines 367-374: second submission.
RaceLoadAttempt2(t) ==
    /\ AtPc(t, "load2")
    /\ \E ok \in BOOLEAN :
        /\ tables' = IF ok THEN LoadEffect(tables, "orders", proc[t].schema, "WRITE_APPEND")
                           ELSE tables
        /\ proc' = Goto(t, IF ok THEN "returned" ELSE "raised")
    /\ UNCHANGED <<svc, RaceUnchanged>>

NextRace ==
    \E t \in Threads :
        \/ RaceResolveSchema(t)
        \/ RaceLoadAttempt1(t)
        \/ RaceWiden(t)
        \/ RaceGetTable(t)
        \/ RaceUpdateTable(t)
        \/ RaceLoadAttempt2(t)

SpecRace == InitRace /\ [][NextRace]_vars

\* C22: nothing guards the schema widening of concurrent WRITE_APPEND calls:
\* the destination table's schema is that of the last accepted update_table,
\* whatever the table held when it was fetched or updated, so that a field
\* pushed by one call and unknown to the next one is lost.
C22_LastUpdateWins ==
    svc.pushed # <<>> =>
        tables["orders"] = proc[svc.pushed[Len(svc.pushed)]].schema

\* A lost update: threads 1 and 2 both fetched the table before either
\* updated it, each pushed a field the table did not have, and the table is
\* left without the field thread 1 pushed.
C22_Witness ==
    /\ svc.pushed = <<1, 2>>
    /\ proc[1].client_table = proc[2].client_table
    /\ \E f \in DOMAIN proc[1].schema, g \in DOMAIN proc[2].schema :
        /\ f # g
        /\ f \notin DOMAIN proc[1].client_table
        /\ g \notin DOMAIN proc[2].client_table
        /\ f \notin DOMAIN tables["orders"]
        /\ g \in DOMAIN tables["orders"]

\* ===================================================================
\* DatastoreHandler.set_document
\* (src/google_cloud_utils/handlers/datastore/handler.py)
\* ===================================================================
\* Largest number of set_document calls of one run.
MaxSets == 2
\* Line 85: the size limit of an indexed string property, in UTF-8 bytes.
MaxIndexedBytes == 1500

PropNames == {"a", "b"}

\* Property values: strings by their length in characters and in UTF-8
\* bytes, an integer, a dict and a list.
ShortStr == [t |-> "str", chars |-> 5, bytes |-> 5]
EdgeStr == [t |-> "str", chars |-> MaxIndexedBytes, bytes |-> MaxIndexedBytes]
LongStr == [t |-> "str", chars |-> MaxIndexedBytes + 1, bytes |-> MaxIndexedBytes + 1]
WideStr == [t |-> "str", chars |-> 800, bytes |-> 1600]
PropValues ==
    {ShortStr, EdgeStr, LongStr, WideStr,
     [t |-> "int", chars |-> 0, bytes |-> 0],
     [t |-> "dict", chars |-> 0, bytes |-> 0],
     [t |-> "list", chars |-> 0, bytes |-> 0]}

\* The data argument: a dict of properties.
DataDicts == UNION {[names -> PropValues] : names \in SUBSET PropNames}

\* Line 72 and 74: datastore.Entity(key=key), no property, nothing excluded;
\* `exists` tells a stored entity from an absent one.
NewEntity == [exists |-> FALSE, props |-> <<>>, exclude |-> {}]

\* What the kind holds under the key before the first call: nothing, or an
\* entity written by this or another writer (whose long strings need not be
\* excluded).
StoredEntities ==
    {NewEntity,
     [exists |-> TRUE, props |-> [a |-> LongStr], exclude |-> {}],
     [exists |-> TRUE, props |-> [a |-> ShortStr], exclude |-> {"a"}],
     [exists |-> TRUE, props |-> [a |-> ShortStr, b |-> WideStr], exclude |-> {"b"}]}

InitDatastore ==
    /\ LoaderIdle
    /\ fnPc = "off" /\ fnIn = <<>> /\ fnOut = <<>>
    /\ svc \in [stored : StoredEntities]
    /\ proc = [pc |-> "idle", data |-> <<>>, merge |-> TRUE, entity |-> NewEntity,
               before |-> NewEntity, raised |-> FALSE, ret |-> FALSE, sets |-> 0]

\* Line 77: entity.update(data).
Update(entity, data) ==
    [entity EXCEPT !.props =
        [k \in (DOMAIN entity.props) \cup (DOMAIN data) |->
            IF k \in DOMAIN data THEN data[k] ELSE entity.props[k]]]

\* Mutant: the length of a string is counted in characters.
TooLargeToIndex_Chars(v) ==
    \/ v.t = "str" /\ v.chars > MaxIndexedBytes
    \/ v.t \in {"dict", "list"}

\* Lines 85 and 88: the value is a str of more than 1500 UTF-8 bytes, or a
\* dict or a list.
TooLargeToIndex(v) ==
    \/ v.t = "str" /\ v.bytes > MaxIndexedBytes
    \/ v.t \in {"dict", "list"}

\* Lines 82-92: the entity's exclusions, plus every property too large to
\* index.
Exclude(entity) ==
    [entity EXCEPT !.exclude =
        @ \cup {k \in DOMAIN entity.props : TooLargeToIndex(entity.props[k])}]

\* Lines 63-66: the call, and the key, which the client builds or fails to.
SetDocument(data, merge) ==
    /\ proc.pc = "idle"
    /\ proc.sets < MaxSets
    /\ \E ok \in BOOLEAN :
        proc' = [proc EXCEPT !.pc = IF ~ok THEN "except" ELSE IF merge THEN "get" ELSE "update",
                             !.data = data, !.merge = merge, !.entity = NewEntity,
                             !.before = svc.stored, !.raised = ~ok, !.sets = @ + 1]
    /\ UNCHANGED <<svc, loaderVars, fnVars>>

\* Lines 70-72: client.get(key), which answers or raises; an absent entity
\* and an entity without properties are both falsy and replaced by a new one.
GetEntity ==
    /\ proc.pc = "get"
    /\ \E ok \in BOOLEAN :
        proc' = IF ok
            THEN [proc EXCEPT !.pc = "update",
                              !.entity = IF svc.stored.exists /\ DOMAIN svc.stored.props # {}
                                            THEN svc.stored ELSE NewEntity]
            ELSE [proc EXCEPT !.pc = "except", !.raised = TRUE]
    /\ UNCHANGED <<svc, loaderVars, fnVars>>

\* Lines 77-92.
UpdateEntity ==
    /\ proc.pc = "update"
    /\ proc' = [proc EXCEPT !.pc = "put", !.entity = Exclude(Update(proc.entity, proc.data))]
    /\ UNCHANGED <<svc, loaderVars, fnVars>>

\* Lines 94-95: client.put(entity), which stores the entity or raises.
PutEntity ==
    /\ proc.pc = "put"
    /\ \E ok \in BOOLEAN :
        IF ok
            THEN /\ svc' = [svc EXCEPT !.stored = [proc.entity EXCEPT !.exists = TRUE]]
                 /\ proc' = [proc EXCEPT !.pc = "done", !.ret = TRUE]
            ELSE /\ svc' = svc
                 /\ proc' = [proc EXCEPT !.pc = "except", !.raised = TRUE]
    /\ UNCHANGED <<loaderVars, fnVars>>

\* Lines 96-98: except Exception: return False.
SetFailed ==
    /\ proc.pc = "except"
    /\ proc' = [proc EXCEPT !.pc = "done", !.ret = FALSE]
    /\ UNCHANGED <<svc, loaderVars, fnVars>>

\* The caller has the result and may call again.
SetReturned ==
    /\ proc.pc = "done"
    /\ proc' = [proc EXCEPT !.pc = "idle"]
    /\ UNCHANGED <<svc, loaderVars, fnVars>>

NextDatastore ==
    \/ \E data \in DataDicts, merge \in BOOLEAN : SetDocument(data, merge)
    \/ GetEntity
    \/ UpdateEntity
    \/ PutEntity
    \/ SetFailed
    \/ SetReturned

SpecDatastore == InitDatastore /\ [][NextDatastore]_vars

\* A set_document call has returned True.
SetSucceeded == proc.pc = "done" /\ proc.ret

\* Every stored property too large to index is excluded from the indexes.
LargeExcluded ==
    \A k \in DOMAIN svc.stored.props :
        (\/ svc.stored.props[k].t = "str" /\ svc.stored.props[k].bytes > 1500
         \/ svc.stored.props[k].t \in {"dict", "list"})
            => k \in svc.stored.exclude

\* With merge the stored properties are those of data over those of the
\* entity before the call, without merge they are those of data; a call in
\* which the client raised returns False.
MergeRule ==
    /\ proc.pc = "done" => proc.ret = ~proc.raised
    /\ SetSucceeded =>
        /\ svc.stored.exists
        /\ \A k \in DOMAIN proc.data :
            k \in DOMAIN svc.stored.props /\ svc.stored.props[k] = proc.data[k]
        /\ proc.merge =>
            /\ DOMAIN svc.stored.props = (DOMAIN proc.before.props) \cup (DOMAIN proc.data)
            /\ \A k \in (DOMAIN proc.before.props) \ (DOMAIN proc.data) :
                svc.stored.props[k] = proc.before.props[k]
        /\ ~proc.merge => DOMAIN svc.stored.props = DOMAIN proc.data

\* C27 as stated: after every successful set_document every stored property
\* that is a string of more than 1500 UTF-8 bytes, a dict or a list is
\* excluded from the indexes, and every property excluded before the call is
\* still excluded, with merge or without.
C27_ExclusionsKept ==
    /\ MergeRule
    /\ SetSucceeded =>
        /\ LargeExcluded
        /\ proc.before.exclude \subseteq svc.stored.exclude

\* C27 amended: after every successful set_document every stored property
\* that is a string of more than 1500 UTF-8 bytes, a dict or a list is
\* excluded from the indexes; with merge true every property excluded before
\* the call is still excluded and the existing properties not in data are
\* kept; with merge false the existing properties and their exclusions are
\* discarded, so that only the properties of data that are too large to index
\* are excluded; on any error the call returns False instead of raising.
C27_ExclusionsKeptOnMerge ==
    /\ MergeRule
    /\ SetSucceeded =>
        /\ LargeExcluded
        /\ proc.merge => proc.before.exclude \subseteq svc.stored.exclude
        /\ ~proc.merge =>
            svc.stored.exclude =
                {k \in DOMAIN proc.data :
                    \/ proc.data[k].t = "str" /\ proc.data[k].bytes > 1500
                    \/ proc.data[k].t \in {"dict", "list"}}

\* A merge into an entity whose property "a" is a long string that was not
\* excluded, writing a property "b" of 800 characters and 1600 bytes: both
\* are excluded afterwards.
C27_Witness ==
    /\ SetSucceeded
    /\ proc.merge
    /\ proc.before = [exists |-> TRUE, props |-> [a |-> LongStr], exclude |-> {}]
    /\ proc.data = [b |-> WideStr]
    /\ svc.stored = [exists |-> TRUE, props |-> [a |-> LongStr, b |-> WideStr],
                     exclude |-> {"a", "b"}]

\* ===================================================================
\* CloudStorageHandler.move_file
\* (src/google_cloud_utils/handlers/cloud_storage/handler.py)
\* ===================================================================
\* Largest number of move_file calls of one run.
MaxMoves == 2

Buckets == {"b1", "b2"}
FileNames == {"f", "g"}
\* A blob's place: bucket and name.
Places == [bucket : Buckets, name : FileNames]
\* What a place holds: no blob, or a blob with one of two contents.
NoBlob == "none"
Contents == {"x", "y"}

InitStorage ==
    /\ LoaderIdle
    /\ fnPc = "off" /\ fnIn = <<>> /\ fnOut = <<>>
    /\ svc \in [blobs : [Places -> {NoBlob} \cup Contents]]
    /\ proc = [pc |-> "idle", source |-> [bucket |-> "b1", name |-> "f"],
               destination |-> [bucket |-> "b1", name |-> "f"],
               file |-> NoBlob, raised |-> FALSE, ret |-> "none", moves |-> 0]

\* Line 431: the call; `file` is what the source place holds at the call.
MoveFile(source, destination) ==
    /\ proc.pc = "idle"
    /\ proc.moves < MaxMoves
    /\ proc' = [proc EXCEPT !.pc = "source_bucket", !.source = source,
                            !.destination = destination, !.file = svc.blobs[source],
                            !.raised = FALSE, !.ret = "none", !.moves = @ + 1]
    /\ UNCHANGED <<svc, loaderVars, fnVars>>

\* Line 435: client.get_bucket(source_bucket_name), which answers or raises.
GetSourceBucket ==
    /\ proc.pc = "source_bucket"
    /\ \E ok \in BOOLEAN :
        proc' = [proc EXCEPT !.pc = IF ok THEN "destination_bucket" ELSE "except",
                             !.raised = ~ok]
    /\ UNCHANGED <<svc, loaderVars, fnVars>>

\* Line 436: client.get_bucket(destination_bucket_name).
GetDestinationBucket ==
    /\ proc.pc = "destination_bucket"
    /\ \E ok \in BOOLEAN :
        proc' = [proc EXCEPT !.pc = IF ok THEN "copy" ELSE "except", !.raised = ~ok]
    /\ UNCHANGED <<svc, loaderVars, fnVars>>

\* Lines 437-438: copy_blob, which writes the source's content to the
\* destination place, or raises (always when the source holds no blob).
CopyBlob ==
    /\ proc.pc = "copy"
    /\ \E ok \in {b \in BOOLEAN : b => svc.blobs[proc.source] # NoBlob} :
        /\ svc' = IF ok THEN [svc EXCEPT !.blobs[proc.destination] = svc.blobs[proc.source]]
                        ELSE svc
        /\ proc' = [proc EXCEPT !.pc = IF ok THEN "delete" ELSE "except", !.raised = ~ok]
    /\ UNCHANGED <<loaderVars, fnVars>>

\* Lines 439-440: blob.delete(), which removes the blob at the source place,
\* or raises.
DeleteBlob ==
    /\ proc.pc = "delete"
    /\ \E ok \in {b \in BOOLEAN : b => svc.blobs[proc.source] # NoBlob} :
        /\ svc' = IF ok THEN [svc EXCEPT !.blobs[proc.source] = NoBlob] ELSE svc
        /\ proc' = [proc EXCEPT !.pc = IF ok THEN "done" ELSE "except", !.raised = ~ok]
    /\ UNCHANGED <<loaderVars, fnVars>>

\* Lines 441-444: except Exception: raise Exception("Failed to move file in
\* GCS.").
MoveFailed ==
    /\ proc.pc = "except"
    /\ proc' = [proc EXCEPT !.pc = "done", !.ret = "raised"]
    /\ UNCHANGED <<svc, loaderVars, fnVars>>

\* The caller has the outcome and may call again.
MoveReturned ==
    /\ proc.pc = "done"
    /\ proc' = [proc EXCEPT !.pc = "idle"]
    /\ UNCHANGED <<svc, loaderVars, fnVars>>

NextStorage ==
    \/ \E source, destination \in Places : MoveFile(source, destination)
    \/ GetSourceBucket
    \/ GetDestinationBucket
    \/ CopyBlob
    \/ DeleteBlob
    \/ MoveFailed
    \/ MoveReturned

SpecStorage == InitStorage /\ [][NextStorage]_vars

\* C28: move_file deletes the source blob only after the copy has succeeded:
\* at every step of a call on an existing file, failed lookups and copies
\* included, the file is at the source or at the destination, up to the copy
\* it is at the source, and a failure is raised to the caller.
C28_FileNeverLost ==
    /\ (proc.pc # "idle" /\ proc.file # NoBlob) =>
        \/ svc.blobs[proc.source] = proc.file
        \/ svc.blobs[proc.destination] = proc.file
    /\ (proc.pc \in {"source_bucket", "destination_bucket", "copy"} /\ proc.file # NoBlob) =>
        svc.blobs[proc.source] = proc.file
    /\ proc.pc = "done" => (proc.ret = "raised") = proc.raised

\* ===================================================================
\* GoogleCloudHandler._initialize (src/google_cloud_utils/client.py)
\* ===================================================================
\* Lines 74-93: the service handlers in the order of their creation, after
\* the SecretManagerHandler of line 71.
HandlerOrder ==
    <<"CloudStorageHandler", "BigQueryHandler", "CloudSchedulerHandler",
      "DatastoreHandler", "PubSubHandler", "CloudTasksHandler", "CloudFunctionHandler">>
ServiceHandlers == {HandlerOrder[i] : i \in DOMAIN HandlerOrder}

\* Lines 74-92: the secret asked for each handler.
SecretName(handler) ==
    CASE handler = "CloudStorageHandler" -> "cloud-storage-admin-service-account"
      [] handler = "BigQueryHandler" -> "bigquery-admin-service-account"
      [] handler = "CloudSchedulerHandler" -> "cloud-scheduler-admin-service-account"
      [] handler = "DatastoreHandler" -> "firestore-admin-service-account"
      [] handler = "PubSubHandler" -> "pubsub-admin-service-account"
      [] handler = "CloudTasksHandler" -> "cloud-tasks-admin-service-account"
      [] handler = "CloudFunctionHandler" -> "cloud-function-admin-service-account"

\* Credential values: None, the empty dict, a service account dict given by
\* the caller for a handler, and the dict read from a secret.
NoCredentials == [kind |-> "None", of |-> ""]
EmptyCredentials == [kind |-> "{}", of |-> ""]
CallerCredentials(handler) == [kind |-> "caller", of |-> handler]
SecretCredentials(secret_name) == [kind |-> "secret", of |-> secret_name]

\* Lines 39-46: the arguments, each None by default.
InitializeArgs ==
    {a \in [ServiceHandlers \cup {"SecretManagerHandler"} ->
                {NoCredentials, EmptyCredentials}
                \cup {CallerCredentials(h) : h \in ServiceHandlers \cup {"SecretManagerHandler"}}] :
        /\ \A h \in DOMAIN a : a[h].kind = "caller" => a[h].of = h
        /\ a["SecretManagerHandler"] # EmptyCredentials}

InitClient ==
    /\ LoaderIdle
    /\ fnPc = "off" /\ fnIn = <<>> /\ fnOut = <<>>
    /\ svc = [queried |-> <<>>, created |-> <<>>]
    /\ proc \in [pc : {"secret_manager"}, args : InitializeArgs, i : {1},
                 credentials : {NoCredentials}, raised : {FALSE}, ret : {"none"}]

\* Python's truth value of a credentials argument: None and {} are false.
Provided(credentials) == credentials.kind \notin {"None", "{}"}

\* Mutant: the secret is asked for whatever the caller gave.
NeedsSecret_Always(credentials) == TRUE

\* Lines 74-92, `x or get_secret(...)`: the right operand is evaluated when
\* the left one is false.
NeedsSecret(credentials) ==
    ~Provided(credentials)

\* Line 71: SecretManagerHandler(serviceAccountJson=...), created or raising.
CreateSecretManager ==
    /\ proc.pc = "secret_manager"
    /\ \E ok \in BOOLEAN :
        /\ svc' = IF ok THEN [svc EXCEPT !.created =
                                Append(@, <<"SecretManagerHandler",
                                            proc.args["SecretManagerHandler"]>>)]
                        ELSE svc
        /\ proc' = [proc EXCEPT !.pc = IF ok THEN "credentials" ELSE "except",
                                !.raised = ~ok]
    /\ UNCHANGED <<loaderVars, fnVars>>

\* Lines 74, 77, 80, 83, 86, 89, 92: X = X or get_secret(name); get_secret
\* (secret_manager/handler.py lines 59-68) returns the secret, or None when
\* anything fails.
ResolveCredentials ==
    /\ proc.pc = "credentials"
    /\ LET handler == HandlerOrder[proc.i]
           given == proc.args[handler]
       IN  IF NeedsSecret(given)
            THEN /\ svc' = [svc EXCEPT !.queried = Append(@, SecretName(handler))]
                 /\ \E secret \in {NoCredentials, SecretCredentials(SecretName(handler))} :
                        proc' = [proc EXCEPT !.pc = "create", !.credentials = secret]
            ELSE /\ svc' = svc
                 /\ proc' = [proc EXCEPT !.pc = "create", !.credentials = given]
    /\ UNCHANGED <<loaderVars, fnVars>>

\* Lines 75, 78, 81, 84, 87, 90, 93: the handler's constructor, which
\* returns or raises.
CreateHandler ==
    /\ proc.pc = "create"
    /\ \E ok \in BOOLEAN :
        /\ svc' = IF ok THEN [svc EXCEPT !.created =
                                Append(@, <<HandlerOrder[proc.i], proc.credentials>>)]
                        ELSE svc
        /\ proc' = IF ~ok THEN [proc EXCEPT !.pc = "except", !.raised = TRUE]
                   ELSE IF proc.i = Len(HandlerOrder)
                        THEN [proc EXCEPT !.pc = "done", !.ret = "returned"]
                   ELSE [proc EXCEPT !.pc = "credentials", !.i = @ + 1]
    /\ UNCHANGED <<loaderVars, fnVars>>

\* Lines 94-96: except Exception as e: raise e.
InitializeFailed ==
    /\ proc.pc = "except"
    /\ proc' = [proc EXCEPT !.pc = "done", !.ret = "raised"]
    /\ UNCHANGED <<svc, loaderVars, fnVars>>

NextClient ==
    \/ CreateSecretManager
    \/ ResolveCredentials
    \/ CreateHandler
    \/ InitializeFailed

SpecClient == InitClient /\ [][NextClient]_vars

\* The handlers are created in the fixed order, the SecretManagerHandler
\* first, each secret is asked for before its handler is created and after
\* the handler before it, and a failure is raised to the caller.
CreationOrder ==
    /\ \A n \in DOMAIN svc.created :
        svc.created[n][1] = (<<"SecretManagerHandler">> \o HandlerOrder)[n]
    /\ \A q \in DOMAIN svc.queried :
        \E n \in DOMAIN HandlerOrder :
            /\ svc.queried[q] = SecretName(HandlerOrder[n])
            /\ Len(svc.created) >= n
            /\ \A p \in DOMAIN svc.queried : svc.queried[p] = svc.queried[q] => p = q
    /\ proc.pc = "done" =>
        /\ (proc.ret = "raised") = proc.raised
        /\ proc.ret = "returned" => Len(svc.created) = Len(HandlerOrder) + 1

MaxPages == 3
\* Largest number of jobs on one page.
MaxPageSize == 2

\* Page tokens: None, and a str; the str of number 0 is the empty string
\* the first request passes, the str of number k is the token the service
\* hands out with page k, which asks for page k + 1.
NoToken == [t |-> "None", v |-> 0]
PageToken(k) == [t |-> "str", v |-> k]

\* The jobs of a page: job j of page k is <<k, j>>.
PageJobs(k, size) == [j \in 1..size |-> <<k, j>>]

\* The service's job listing: one to MaxPages pages (an empty listing is one
\* page without jobs).
Listings ==
    UNION {{[k \in 1..n |-> PageJobs(k, sizes[k])] : sizes \in [1..n -> 0..MaxPageSize]} :
            n \in 1..MaxPages}

InitScheduler ==
    /\ LoaderIdle
    /\ fnPc = "off" /\ fnIn = <<>> /\ fnOut = <<>>
    /\ svc \in [pages : Listings, requests : {<<>>}, responses : {<<>>}]
    /\ proc = [pc |-> "idle", next_page_token |-> NoToken, jobs |-> <<>>, ret |-> <<>>]

\* Lines 38-42.
GetCloudJobs ==
    /\ proc.pc = "idle"
    /\ proc' = [proc EXCEPT !.pc = "while", !.next_page_token = PageToken(0), !.jobs = <<>>]
    /\ UNCHANGED <<svc, loaderVars, fnVars>>

\* The service's answer to a list request with a page token: the page the
\* token asks for, with a token for the next page when there is one.
ListResponse(pages, pageToken) ==
    LET k == pageToken.v + 1 IN
        [jobs |-> pages[k],
         nextPageToken |-> IF k < Len(pages) THEN PageToken(k) ELSE NoToken,
         error |-> FALSE]

\* The body of a refused request: neither jobs nor nextPageToken.
ErrorResponse == [jobs |-> <<>>, nextPageToken |-> NoToken, error |-> TRUE]

\* Mutant: the jobs of a page replace those of the pages before it.
Extend_Replace(jobs, new_jobs) ==
    new_jobs

\* Line 49: jobs.extend(new_jobs).
Extend(jobs, new_jobs) ==
    jobs \o new_jobs

\* Lines 43-49, one turn of the loop: the request with the current token;
\* the service answers with a page or with an error body, or the request (or
\* the decoding of its body) raises.
FetchPage ==
    /\ proc.pc = "while"
    /\ proc.next_page_token # NoToken
    /\ \/ \E response \in {ListResponse(svc.pages, proc.next_page_token), ErrorResponse} :
            /\ svc' = [svc EXCEPT !.requests = Append(@, proc.next_page_token),
                                  !.responses = Append(@, response)]
            /\ proc' = [proc EXCEPT !.next_page_token = response.nextPageToken,
                                    !.jobs = Extend(@, response.jobs)]
       \/ /\ svc' = [svc EXCEPT !.requests = Append(@, proc.next_page_token)]
          /\ proc' = [proc EXCEPT !.pc = "raised"]
    /\ UNCHANGED <<loaderVars, fnVars>>

\* Lines 43 and 50: the loop ends on a None token and the jobs are returned.
ReturnJobs ==
    /\ proc.pc = "while"
    /\ proc.next_page_token = NoToken
    /\ proc' = [proc EXCEPT !.pc = "done", !.ret = proc.jobs]
    /\ UNCHANGED <<svc, loaderVars, fnVars>>

NextScheduler ==
    \/ GetCloudJobs
    \/ FetchPage
    \/ ReturnJobs

SpecScheduler == InitScheduler /\ [][NextScheduler]_vars

\* The thread of the call keeps running and every request is answered.
SpecSchedulerLive == SpecScheduler /\ WF_vars(NextScheduler)

RECURSIVE Flatten(_)
\* The sequences of a sequence, concatenated in order.
Flatten(seqs) ==
    IF seqs = <<>> THEN <<>>
    ELSE Flatten(SubSeq(seqs, 1, Len(seqs) - 1)) \o seqs[Len(seqs)]

\* One request per response received, the first with the empty token, each
\* later one with the nextPageToken of the response before it, none after a
\* response without nextPageToken, no token passed twice; the call returns
\* the jobs of the responses in their order, which are those of the whole
\* listing unless a request was refused.
PagedOnce ==
    /\ Len(svc.requests) \in {Len(svc.responses), Len(svc.responses) + 1}
    /\ Len(svc.requests) > Len(svc.responses) => proc.pc = "raised"
    /\ \A n \in DOMAIN svc.requests :
        /\ n = 1 => svc.requests[n] = PageToken(0)
        /\ n > 1 => /\ svc.responses[n - 1].nextPageToken # NoToken
                    /\ svc.requests[n] = svc.responses[n - 1].nextPageToken
        /\ \A m \in DOMAIN svc.requests : svc.requests[m] = svc.requests[n] => m = n
    /\ proc.pc = "done" =>
        /\ svc.responses # <<>>
        /\ svc.responses[Len(svc.responses)].nextPageToken = NoToken
        /\ proc.ret = Flatten([n \in DOMAIN svc.responses |-> svc.responses[n].jobs])
        /\ (\A n \in DOMAIN svc.responses : ~svc.responses[n].error) =>
                /\ Len(svc.requests) = Len(svc.pages)
                /\ proc.ret = Flatten(svc.pages)

\* C30: getCloudJobs issues one request per page, passing the nextPageToken
\* of the previous response, stops as soon as a response carries no
\* nextPageToken and returns the jobs of all pages concatenated in page order,
\* no page being fetched twice; and, the service answering each request, the
\* call ends once a response without nextPageToken has come (or a request
\* raised).
C30_PagedOnceAndTerminates ==
    /\ []PagedOnce
    /\ (proc.pc = "while") ~> (proc.pc \in {"done", "raised"})
    /\ (proc.pc = "while" /\ proc.next_page_token = NoToken) ~> (proc.pc = "done")

\* A listing of MaxPages pages was returned whole, after one request per page.
C30_Witness ==
    /\ proc.pc = "done"
    /\ Len(svc.pages) = MaxPages
    /\ Len(svc.requests) = MaxPages
    /\ Len(proc.ret) = MaxPages * MaxPageSize
    /\ proc.ret = Flatten(svc.pages)
====
